---- MODULE Spec2Model ----
(***************************************************************************)
(* Platform API service: readiness flag, health/API handlers, the         *)
(* middleware chain of app/middleware, and the lifecycle coordinator of   *)
(* app/main.go (listener goroutine, signal channel, bounded drain).  One   *)
(* step of the model is one statement of main.go (with the log statements *)
(* next to it), one phase of a request's handler, or one request through  *)
(* the whole chain; library calls (ListenAndServe, signal.Notify,         *)
(* Shutdown, logger.Fatal, http.Error, uuid.New) are modelled by their    *)
(* documented behaviour at the call site.                                 *)
(***************************************************************************)
EXTENDS Bags, FiniteSets, Integers, Naturals, Sequences, TLC

\* ---------------------------------------------------------------- bounds
MaxReq == 1          \* connections the clients open during one run
MaxSignals == 2      \* SIGINT/SIGTERM deliveries during one run
MaxTimeout == 1      \* largest configured SHUTDOWN_TIMEOUT, in ticks

\* ------------------------------------------------------------- constants
StatusOK == 200
StatusServiceUnavailable == 503
ExitSuccess == 0
ExitFatal == 1
ExitSignal == 2      \* non-zero status of a process killed by SIGINT/SIGTERM
NoDeadline == -1
NoExit == -1
QuitCap == 1

ReqIds == 1..MaxReq
Paths == {"/healthz", "/readyz", "/api/v1/info", "/api/v1/status"}
\* LOG_LEVEL values exercised; "info" is the default of config.Load
LogLevels == {"info"}

VARIABLES
  cfg,          \* config.Load(): ShutdownTimeout, LogLevel
  ready,        \* HealthHandler.ready (atomic.Bool)
  mainPc,       \* position of main()
  lsnPc,        \* position of the listener goroutine
  inShutdown,   \* http.Server: Shutdown has been called
  notified,     \* signal.Notify(quit, ...) is registered
  quit,         \* number of signals buffered in the quit channel
  sigCount,     \* signals delivered to the process so far
  ctxLeft,      \* time left on the drain context's timer, NoDeadline before it exists
  shutdownErr,  \* result of server.Shutdown: "unset", "nil", "deadline"
  exited,       \* the process has terminated
  exitCode,     \* its exit status
  exitCause,    \* "none", "main", "fatal", "signal"
  logs,         \* bag of emitted log records
  req,          \* per connection: the request and its handler's progress
  chain,        \* middleware chain: requests served, ids generated, last exchange
  conc,         \* handlers running concurrently: one slot per connection
  boot,         \* start-up of main(): environment, clock, handlers' start times
  mem           \* runtime.MemStats.Alloc as read by Status, and its rendering

vars == <<cfg, ready, mainPc, lsnPc, inShutdown, notified, quit, sigCount,
           ctxLeft, shutdownErr, exited, exitCode, exitCause, logs, req, chain,
           conc, boot, mem>>

\* ---------------------------------------------------------------- logger
LevelRank(l) ==
  CASE l = "debug" -> 0
    [] l = "info"  -> 1
    [] l = "warn"  -> 2
    [] l = "error" -> 3
    [] OTHER       -> 4

\* the level the logger runs at: an unknown name selects info
parseLogLevel(level) ==
  CASE level = "debug" -> "debug"
    [] level = "warn"  -> "warn"
    [] level = "error" -> "error"
    [] OTHER           -> "info"

\* a record is written when its level is at or above the configured level
Emit(bag, level, msg) ==
  IF LevelRank(level) >= LevelRank(parseLogLevel(cfg.LogLevel))
    THEN bag (+) SetToBag({[level |-> level, msg |-> msg]})
    ELSE bag

\* -------------------------------------------------------------- handlers
\* NewHealthHandler: h.ready.Store(true); the zero atomic.Bool is false
NewHealthHandler_zeroValue == FALSE

NewHealthHandler == TRUE

Liveness_gated ==
  IF ready THEN [code |-> StatusOK, status |-> "alive", check |-> "none"]
  ELSE [code |-> StatusServiceUnavailable, status |-> "alive", check |-> "none"]

Liveness == [code |-> StatusOK, status |-> "alive", check |-> "none"]

boolToStatus_inverted(b) == IF b THEN "fail" ELSE "pass"

boolToStatus(b) == IF b THEN "pass" ELSE "fail"

Readiness_stale(isReady) ==
  [code |-> StatusOK, status |-> "ready", check |-> boolToStatus(isReady)]

Readiness(isReady) ==
  [code   |-> IF isReady THEN StatusOK ELSE StatusServiceUnavailable,
   status |-> IF isReady THEN "ready" ELSE "not_ready",
   check  |-> boolToStatus(isReady)]

\* Info reports service, version and environment; its body has no status field
Info == [code |-> StatusOK, status |-> "none", check |-> "none"]

Status_gated ==
  [code   |-> IF ready THEN StatusOK ELSE StatusServiceUnavailable,
   status |-> "operational", check |-> "none"]

Status == [code |-> StatusOK, status |-> "operational", check |-> "none"]

\* promhttp.Handler(): the metrics text, 200
Metrics == [code |-> StatusOK, status |-> "none", check |-> "none"]

\* mux routing of main.go; "/" is the catch-all
Mux_noCatchAll(path, isReady) ==
  CASE path = "/healthz"       -> Liveness
    [] path = "/readyz"        -> Readiness(isReady)
    [] path = "/metrics"       -> Metrics
    [] path = "/api/v1/status" -> Status
    [] path = "/api/v1/info"   -> Info
    [] OTHER                   -> [code |-> 404, status |-> "none", check |-> "none"]

Mux(path, isReady) ==
  CASE path = "/healthz"       -> Liveness
    [] path = "/readyz"        -> Readiness(isReady)
    [] path = "/metrics"       -> Metrics
    [] path = "/api/v1/status" -> Status
    [] OTHER                   -> Info

\* ------------------------------------------------------------- lifecycle
\* a connection slot: st is "new", "accepted", "handled", "done" or "aborted";
\* phase is the coordinator's state when the request was accepted; doneIn is
\* the state of the drain when the response was delivered
NoReq == [st |-> "new", path |-> "/", phase |-> "none", isReady |-> FALSE,
          resp |-> [code |-> 0, status |-> "", check |-> ""], doneIn |-> "none"]

\* a request id: src is "none" (no or empty X-Request-ID), "client" (supplied
\* by the caller), "uuid" (generated) or "unknown" (GetRequestID's fallback)
NoId == [src |-> "none", n |-> 0]

\* no request has gone through the middleware chain yet
NoChain == [served |-> 0, issued |-> {}, last |-> <<>>]

\* no connection is being handled
NoConc == <<>>

\* main() is past its start-up statements (main.go:23-37)
Booted == [pc |-> "done"]

\* Status has not read the memory statistics
NoMem == [pc |-> "idle", alloc |-> 0, text |-> <<>>]

Init ==
  /\ cfg \in [ShutdownTimeout : 0..MaxTimeout, LogLevel : LogLevels]
  /\ ready = NewHealthHandler
  /\ mainPc = "spawn"
  /\ lsnPc = "none"
  /\ inShutdown = FALSE
  /\ notified = FALSE
  /\ quit = 0
  /\ sigCount = 0
  /\ ctxLeft = NoDeadline
  /\ shutdownErr = "unset"
  /\ exited = FALSE
  /\ exitCode = NoExit
  /\ exitCause = "none"
  /\ logs = EmptyBag
  /\ req = [r \in ReqIds |-> NoReq]
  /\ chain = NoChain
  /\ conc = NoConc
  /\ boot = Booted
  /\ mem = NoMem

InFlight == {r \in ReqIds : req[r].st \in {"accepted", "handled"}}

\* process termination ends every goroutine: handlers still running are cut
Terminate(code, cause) ==
  /\ exited' = TRUE
  /\ exitCode' = code
  /\ exitCause' = cause
  /\ req' = [r \in ReqIds |->
               IF r \in InFlight THEN [req[r] EXCEPT !.st = "aborted"] ELSE req[r]]

\* main.go:75  go func() { ... }()
MainSpawn ==
  /\ ~exited /\ mainPc = "spawn"
  /\ mainPc' = "notify"
  /\ lsnPc' = "listen"
  /\ UNCHANGED <<conc, boot, mem, chain, cfg, ready, inShutdown, notified, quit, sigCount,
                 ctxLeft, shutdownErr, exited, exitCode, exitCause, logs, req>>

\* main.go:76-77  logger.Info("server listening"); server.ListenAndServe():
\* ErrServerClosed once Shutdown has been called; otherwise the bind succeeds
\* (the goroutine serves) or fails
LsnListenAndServe ==
  /\ ~exited /\ lsnPc = "listen"
  /\ logs' = Emit(logs, "info", "server listening")
  /\ IF inShutdown
       THEN lsnPc' = "closed"
       ELSE \E bindOk \in BOOLEAN : lsnPc' = IF bindOk THEN "serving" ELSE "fatal"
  /\ UNCHANGED <<conc, boot, mem, chain, cfg, ready, mainPc, inShutdown, notified, quit, sigCount,
                 ctxLeft, shutdownErr, exited, exitCode, exitCause, req>>

\* main.go:77  ListenAndServe returns http.ErrServerClosed after Shutdown:
\* the condition is false and the goroutine ends
LsnServeReturn_closedIsFatal ==
  /\ ~exited /\ lsnPc = "serving" /\ inShutdown
  /\ lsnPc' = "fatal"
  /\ UNCHANGED <<conc, boot, mem, chain, cfg, ready, mainPc, inShutdown, notified, quit, sigCount,
                 ctxLeft, shutdownErr, exited, exitCode, exitCause, logs, req>>

LsnServeReturn ==
  /\ ~exited /\ lsnPc = "serving" /\ inShutdown
  /\ lsnPc' = "closed"
  /\ UNCHANGED <<conc, boot, mem, chain, cfg, ready, mainPc, inShutdown, notified, quit, sigCount,
                 ctxLeft, shutdownErr, exited, exitCode, exitCause, logs, req>>

\* main.go:78  logger.Fatal("server failed to start"): log, then os.Exit(1)
LsnFatal ==
  /\ ~exited /\ lsnPc = "fatal"
  /\ logs' = Emit(logs, "fatal", "server failed to start")
  /\ lsnPc' = "exit"
  /\ Terminate(ExitFatal, "fatal")
  /\ UNCHANGED <<conc, boot, mem, chain, cfg, ready, mainPc, inShutdown, notified, quit, sigCount,
                 ctxLeft, shutdownErr>>

\* A signal that finds no registered channel takes the runtime's default
\* disposition and kills the process; signal.Notify's channel send is
\* non-blocking, so a signal that finds the buffer full is dropped.
SignalDelivery_secondKills ==
  IF ~notified \/ sigCount >= 1
    THEN /\ Terminate(ExitSignal, "signal")
         /\ UNCHANGED quit
    ELSE /\ quit' = IF quit < QuitCap THEN quit + 1 ELSE quit
         /\ UNCHANGED <<exited, exitCode, exitCause, req>>

SignalDelivery ==
  IF ~notified
    THEN /\ Terminate(ExitSignal, "signal")
         /\ UNCHANGED quit
    ELSE /\ quit' = IF quit < QuitCap THEN quit + 1 ELSE quit
         /\ UNCHANGED <<exited, exitCode, exitCause, req>>

\* SIGINT or SIGTERM sent by the host process manager
Signal ==
  /\ ~exited /\ sigCount < MaxSignals
  /\ sigCount' = sigCount + 1
  /\ SignalDelivery
  /\ UNCHANGED <<conc, boot, mem, chain, cfg, ready, mainPc, lsnPc, inShutdown, notified,
                 ctxLeft, shutdownErr, logs>>

\* main.go:83-84  quit := make(chan os.Signal, 1); signal.Notify(quit, ...)
MainNotify ==
  /\ ~exited /\ mainPc = "notify"
  /\ notified' = TRUE
  /\ mainPc' = "recv"
  /\ UNCHANGED <<conc, boot, mem, chain, cfg, ready, lsnPc, inShutdown, quit, sigCount,
                 ctxLeft, shutdownErr, exited, exitCode, exitCause, logs, req>>

\* main.go:85-87  sig := <-quit; logger.Info("received shutdown signal")
MainRecv ==
  /\ ~exited /\ mainPc = "recv" /\ quit > 0
  /\ quit' = quit - 1
  /\ logs' = Emit(logs, "info", "received shutdown signal")
  /\ mainPc' = "ctx"
  /\ UNCHANGED <<conc, boot, mem, chain, cfg, ready, lsnPc, inShutdown, notified, sigCount,
                 ctxLeft, shutdownErr, exited, exitCode, exitCause, req>>

\* main.go:89  ctx, cancel := context.WithTimeout(Background(), cfg.ShutdownTimeout)
MainCtx ==
  /\ ~exited /\ mainPc = "ctx"
  /\ ctxLeft' = cfg.ShutdownTimeout
  /\ mainPc' = "set_not_ready"
  /\ UNCHANGED <<conc, boot, mem, chain, cfg, ready, lsnPc, inShutdown, notified, quit, sigCount,
                 shutdownErr, exited, exitCode, exitCause, logs, req>>

\* h.ready.Store(false); h.logger.Info("service marked as not ready")
SetNotReady_noStore ==
  /\ ready' = ready
  /\ logs' = Emit(logs, "info", "service marked as not ready")

SetNotReady ==
  /\ ready' = FALSE
  /\ logs' = Emit(logs, "info", "service marked as not ready")

\* main.go:93  healthHandler.SetNotReady()
MainSetNotReady ==
  /\ ~exited /\ mainPc = "set_not_ready"
  /\ SetNotReady
  /\ mainPc' = "shutdown"
  /\ UNCHANGED <<conc, boot, mem, chain, cfg, lsnPc, inShutdown, notified, quit, sigCount,
                 ctxLeft, shutdownErr, exited, exitCode, exitCause, req>>

\* Connections that the call to Shutdown closes at once: the idle ones only;
\* a connection with a request in flight is left to finish.
ShutdownCloses_active == InFlight

ShutdownCloses == {}

\* main.go:96-98  logger.Info("draining connections"); server.Shutdown(ctx)
\* is entered: the listeners are closed
MainShutdownCall ==
  /\ ~exited /\ mainPc = "shutdown"
  /\ logs' = Emit(logs, "info", "draining connections")
  /\ inShutdown' = TRUE
  /\ req' = [r \in ReqIds |->
               IF r \in ShutdownCloses THEN [req[r] EXCEPT !.st = "aborted"] ELSE req[r]]
  /\ mainPc' = "shutdown_wait"
  /\ UNCHANGED <<conc, boot, mem, chain, cfg, ready, lsnPc, notified, quit, sigCount,
                 ctxLeft, shutdownErr, exited, exitCode, exitCause>>

\* <-ctx.Done() of the drain context
CtxDone_never == FALSE

CtxDone == ctxLeft = 0

\* main.go:98  Shutdown returns nil: every connection has become idle
MainShutdownReturnNil ==
  /\ ~exited /\ mainPc = "shutdown_wait"
  /\ InFlight = {}
  /\ shutdownErr' = "nil"
  /\ mainPc' = "return"
  /\ UNCHANGED <<conc, boot, mem, chain, cfg, ready, lsnPc, inShutdown, notified, quit, sigCount,
                 ctxLeft, exited, exitCode, exitCause, logs, req>>

\* main.go:98  Shutdown returns ctx.Err(): the context expired while some
\* connection was still active; Shutdown does not close that connection
MainShutdownReturnDeadline ==
  /\ ~exited /\ mainPc = "shutdown_wait"
  /\ InFlight # {}
  /\ CtxDone
  /\ shutdownErr' = "deadline"
  /\ mainPc' = "return"
  /\ UNCHANGED <<conc, boot, mem, chain, cfg, ready, lsnPc, inShutdown, notified, quit, sigCount,
                 ctxLeft, exited, exitCode, exitCause, logs, req>>

\* main.go:98-100  if err != nil { logger.Error("forced shutdown", ...) }
ForcedShutdownLevel_warn == "warn"

ForcedShutdownLevel == "error"

LogForced_always(bag, err) == Emit(bag, ForcedShutdownLevel, "forced shutdown")

LogForced(bag, err) ==
  IF err # "nil" THEN Emit(bag, ForcedShutdownLevel, "forced shutdown") ELSE bag

\* main.go:103  main returns whatever Shutdown returned: exit status 0
MainExitCode_failOnForced(err) == IF err = "deadline" THEN ExitFatal ELSE ExitSuccess

MainExitCode(err) == ExitSuccess

\* main.go:98-103  the error of Shutdown is logged, then
\* logger.Info("server stopped gracefully") and main returns
MainReturn ==
  /\ ~exited /\ mainPc = "return"
  /\ logs' = Emit(LogForced(logs, shutdownErr), "info", "server stopped gracefully")
  /\ mainPc' = "done"
  /\ Terminate(MainExitCode(shutdownErr), "main")
  /\ UNCHANGED <<conc, boot, mem, chain, cfg, ready, lsnPc, inShutdown, notified, quit, sigCount,
                 ctxLeft, shutdownErr>>

\* ---------------------------------------------------------------- clock
\* time passes on the timer that context.WithTimeout started
Tick ==
  /\ ~exited
  /\ ctxLeft > 0
  /\ ctxLeft' = ctxLeft - 1
  /\ UNCHANGED <<conc, boot, mem, chain, cfg, ready, mainPc, lsnPc, inShutdown, notified, quit, sigCount,
                 shutdownErr, exited, exitCode, exitCause, logs, req>>

\* -------------------------------------------------------------- requests
SignalReceived == mainPc \notin {"spawn", "notify", "recv"}

SetNotReadyReturned ==
  mainPc \notin {"spawn", "notify", "recv", "ctx", "set_not_ready"}

Phase ==
  IF SetNotReadyReturned THEN "notready"
  ELSE IF SignalReceived THEN "signalled" ELSE "running"

DrainState ==
  IF CtxDone THEN "expired" ELSE IF inShutdown THEN "drain" ELSE "serving"

\* the server accepts a connection and reads a GET request from it
Accept_duringDrain(r, p) ==
  /\ ~exited /\ lsnPc = "serving"
  /\ req[r].st = "new"
  /\ \A q \in ReqIds : q < r => req[q].st # "new"
  /\ req' = [req EXCEPT ![r] = [NoReq EXCEPT !.st = "accepted", !.path = p,
                                             !.phase = Phase]]
  /\ UNCHANGED <<conc, boot, mem, chain, cfg, ready, mainPc, lsnPc, inShutdown, notified, quit, sigCount,
                  ctxLeft, shutdownErr, exited, exitCode, exitCause, logs>>

Accept(r, p) ==
  /\ ~exited /\ lsnPc = "serving" /\ ~inShutdown
  /\ req[r].st = "new"
  /\ \A q \in ReqIds : q < r => req[q].st # "new"
  /\ req' = [req EXCEPT ![r] = [NoReq EXCEPT !.st = "accepted", !.path = p,
                                             !.phase = Phase]]
  /\ UNCHANGED <<conc, boot, mem, chain, cfg, ready, mainPc, lsnPc, inShutdown, notified, quit, sigCount,
                  ctxLeft, shutdownErr, exited, exitCode, exitCause, logs>>

\* the routed handler runs: Readiness loads the flag once, the others do not;
\* Status writes a debug record
Handle(r) ==
  /\ ~exited /\ req[r].st = "accepted"
  /\ req' = [req EXCEPT ![r].st = "handled",
                        ![r].isReady = IF req[r].path = "/readyz" THEN ready ELSE FALSE,
                        ![r].resp = Mux(req[r].path, ready)]
  /\ logs' = IF req[r].path = "/api/v1/status"
               THEN Emit(logs, "debug", "status check") ELSE logs
  /\ UNCHANGED <<conc, boot, mem, chain, cfg, ready, mainPc, lsnPc, inShutdown, notified, quit, sigCount,
                  ctxLeft, shutdownErr, exited, exitCode, exitCause>>

\* the handler returns: the response is flushed, Logging emits its record,
\* and the connection becomes idle
Finish(r) ==
  /\ ~exited /\ req[r].st = "handled"
  /\ req' = [req EXCEPT ![r].st = "done", ![r].doneIn = DrainState]
  /\ logs' = Emit(logs, "info", "request completed")
  /\ UNCHANGED <<conc, boot, mem, chain, cfg, ready, mainPc, lsnPc, inShutdown, notified, quit, sigCount,
                  ctxLeft, shutdownErr, exited, exitCode, exitCause>>

Next ==
  \/ MainSpawn
  \/ LsnListenAndServe
  \/ LsnServeReturn
  \/ LsnFatal
  \/ Signal
  \/ MainNotify
  \/ MainRecv
  \/ MainCtx
  \/ MainSetNotReady
  \/ MainShutdownCall
  \/ MainShutdownReturnNil
  \/ MainShutdownReturnDeadline
  \/ MainReturn
  \/ Tick
  \/ \E r \in ReqIds, p \in Paths : Accept(r, p)
  \/ \E r \in ReqIds : Handle(r)
  \/ \E r \in ReqIds : Finish(r)

Spec == Init /\ [][Next]_vars

\* The Go scheduler runs every runnable goroutine and the clock advances:
\* the coordinator's statements and the clock are weakly fair.  Nothing is
\* assumed of clients, signals or the duration of a handler.
MainStep ==
  \/ MainSpawn
  \/ MainNotify
  \/ MainRecv
  \/ MainCtx
  \/ MainSetNotReady
  \/ MainShutdownCall
  \/ MainShutdownReturnNil
  \/ MainShutdownReturnDeadline
  \/ MainReturn

FairSpec == Spec /\ WF_vars(MainStep) /\ WF_vars(Tick)

\* ------------------------------------------------------------ properties
Served(r) == req[r].st \in {"handled", "done"}

Delivered(r) == req[r].st = "done"

ForcedEvents ==
  LET S == {rec \in BagToSet(logs) : rec.msg = "forced shutdown"}
  IN BagCardinality([rec \in S |-> CopiesIn(rec, logs)])

MainRank(pc) ==
  CASE pc = "spawn"         -> 0
    [] pc = "notify"        -> 1
    [] pc = "recv"          -> 2
    [] pc = "ctx"           -> 3
    [] pc = "set_not_ready" -> 4
    [] pc = "shutdown"      -> 5
    [] pc = "shutdown_wait" -> 6
    [] pc = "return"        -> 7
    [] OTHER                -> 8

\* C1: a /readyz request whose handler loads the flag while it is READY answers
\* 200 "ready"; every /readyz request accepted after SetNotReady has returned
\* answers 503 "not_ready"; and once SetNotReady has returned the flag is
\* false in every later state, so no later response is 200.
C1_ReadyzFollowsFlag ==
  /\ SetNotReadyReturned => ~ready
  /\ \A r \in ReqIds :
       (req[r].path = "/readyz" /\ Served(r)) =>
         /\ req[r].isReady =>
              (req[r].resp.code = 200 /\ req[r].resp.status = "ready")
         /\ req[r].phase = "notready" =>
              (req[r].resp.code = 503 /\ req[r].resp.status = "not_ready")

C1_Witness ==
  \E r \in ReqIds :
    /\ req[r].path = "/readyz" /\ Delivered(r)
    /\ req[r].phase = "notready" /\ req[r].resp.code = 503

\* C2: the flag is true from construction until the coordinator's SetNotReady,
\* and the only step that ever changes it is that one store of false at
\* main.go:93; no request step and no other step writes it.
C2_FlagWrittenOnceByCoordinator ==
  /\ [](mainPc \in {"spawn", "notify", "recv", "ctx", "set_not_ready"} => ready)
  /\ [][ready' # ready =>
          (ready /\ ~ready' /\ mainPc = "set_not_ready" /\ mainPc' = "shutdown")]_vars

C2_Witness == ~ready /\ mainPc = "shutdown" /\ ~exited

\* C3: every /healthz response is 200 "alive", whether the request was
\* accepted and served before the flip, across it, or after it.
C3_LivenessAlwaysAlive ==
  \A r \in ReqIds :
    (req[r].path = "/healthz" /\ Served(r)) =>
      (req[r].resp.code = 200 /\ req[r].resp.status = "alive")

C3_Witness ==
  \E r \in ReqIds :
    /\ req[r].path = "/healthz" /\ Delivered(r)
    /\ req[r].phase = "notready" /\ ~ready /\ req[r].resp.code = 200

\* C4: whenever the coordinator has closed the listener (Shutdown has been
\* entered), the readiness flag is already false.
C4_FlagFlippedBeforeListenerClosed == inShutdown => ~ready

C4_Witness == inShutdown /\ ~ready /\ mainPc = "shutdown_wait" /\ ~exited

\* C5: when the coordinator finishes the shutdown sequence the exit status is
\* 0, both when Shutdown returned nil and when it returned the timeout error.
C5_ShutdownExitsZero ==
  mainPc = "done" =>
    /\ exited /\ exitCause = "main"
    /\ shutdownErr \in {"nil", "deadline"}
    /\ exitCode = 0

C5_Witness == mainPc = "done" /\ shutdownErr = "deadline" /\ exitCode = 0

\* C6: once the coordinator has received a signal the process eventually
\* stops, even when a request in flight never completes.
C6_DrainIsBounded == SignalReceived ~> exited

C6_Witness ==
  /\ mainPc = "done" /\ shutdownErr = "deadline"
  /\ \E r \in ReqIds : req[r].st = "aborted"

C8_ForcedLoggedAsWarning ==
  \A rec \in BagToSet(logs) : rec.msg = "forced shutdown" => rec.level = "warn"

\* C8 (amended): the forced-shutdown event is logged at error level; it is
\* not fatal, the process still exits with status 0.
C8_ForcedLoggedAsError ==
  /\ \A rec \in BagToSet(logs) : rec.msg = "forced shutdown" => rec.level = "error"
  /\ ForcedEvents > 0 => (exited /\ exitCode = 0)

C8_Witness == mainPc = "done" /\ shutdownErr = "deadline" /\ ForcedEvents = 1

\* C9: the coordinator only ever moves forward through its sequence, one
\* statement at a time, so the flip and the drain are each performed at most
\* once; a signal delivered after the first one was received changes nothing
\* but the signal channel.
C9_ShutdownRunsOnce ==
  [][/\ mainPc' # mainPc => MainRank(mainPc') = MainRank(mainPc) + 1
     /\ (sigCount' # sigCount /\ SignalReceived) =>
          /\ mainPc' = mainPc /\ lsnPc' = lsnPc
          /\ ready' = ready /\ inShutdown' = inShutdown
          /\ ctxLeft' = ctxLeft /\ shutdownErr' = shutdownErr
          /\ exited' = exited /\ req' = req /\ logs' = logs]_vars

C9_Witness ==
  /\ mainPc = "done" /\ exitCode = 0
  /\ sigCount >= 2 /\ quit = 1

\* C10: a handler is cut short only by the termination of the process, and on
\* the shutdown path only after Shutdown gave up on the expired drain context;
\* every request delivered before that has its complete response.
C10_InFlightNotInterrupted ==
  \A r \in ReqIds :
    /\ req[r].st = "aborted" => exited
    /\ (req[r].st = "aborted" /\ exitCause = "main") =>
         (shutdownErr = "deadline" /\ CtxDone)
    /\ Delivered(r) => req[r].resp.code # 0

C10_Witness ==
  \E r \in ReqIds :
    /\ mainPc = "done" /\ Delivered(r)
    /\ req[r].phase = "running" /\ req[r].doneIn = "drain"

\* ------------------------------------------------------- middleware chain
\* main.go:57-63 wraps the router as RequestID(Logging(Recovery(CORS(mux)))).
\* One exchange is computed as net/http computes it: the stages run nested,
\* each with its part before and its part after the call of the next stage,
\* on one response writer.

MaxServed == 2       \* requests sent through the chain during one run

StatusNoContent == 204
StatusInternalServerError == 500

\* LOG_LEVEL values accepted by parseLogLevel
ChainLogLevels == {"debug", "info", "warn", "error"}

Methods == {"GET", "POST", "OPTIONS"}
ChainPaths == Paths \cup {"/metrics", "/other"}

\* a path that is not in canonical form
UncleanPaths == {"//other"}
ClientIds == {[src |-> "client", n |-> 1]}

\* the string "unknown": what GetRequestID returns for a context without an
\* id, and a value a client is free to send as its X-Request-ID
UnknownId == [src |-> "unknown", n |-> 0]

\* what the handler registered behind the chain does: "none" is the handler
\* main.go registers; the others are handlers that write without a status,
\* call WriteHeader twice, or panic before or after writing
Faults == {"none", "implicit", "double_header", "panic", "status_panic", "body_panic"}

Requests ==
  {rq \in [method : Methods, path : ChainPaths \cup UncleanPaths,
           hdr : {NoId, UnknownId} \cup ClientIds, fault : Faults] :
     /\ rq.fault # "none" => rq.path = "/other"
     /\ rq.hdr = UnknownId => rq.method = "GET" /\ rq.path = "/other"
     /\ rq.path \in UncleanPaths => rq.method = "GET" /\ rq.hdr = NoId}

Chain == <<"RequestID", "Logging", "Recovery", "CORS">>

\* uuid.New(): a value no earlier call returned
NewUUID_reused(issued) == [src |-> "uuid", n |-> 1]

NewUUID(issued) == [src |-> "uuid", n |-> Cardinality(issued) + 1]

\* GetRequestID: the id stored in the context, "unknown" when there is none
GetRequestID(ctxId) == IF ctxId = NoId THEN UnknownId ELSE ctxId

NoHeaders == [xrid |-> NoId, acao |-> "", acam |-> "", acah |-> "",
              ctype |-> "", nosniff |-> "", location |-> ""]

ErrorBody == "{\"error\":\"internal server error\"}\n"

\* the exchange before the first stage: hdr is w.Header(); sent, code and
\* sentHdr are what has gone to the client; statusCode is the field of the
\* Logging stage's responseWriter and wrapped says whether the writer in hand
\* is that wrapper; ctxId is the id in the request context in hand
NewExchange ==
  [hdr |-> NoHeaders, sent |-> FALSE, code |-> 0, sentHdr |-> NoHeaders,
   body |-> <<>>, statusCode |-> StatusOK, wrapped |-> FALSE, ctxId |-> NoId,
   logs |-> <<>>, panicking |-> FALSE, routed |-> FALSE, handlerId |-> NoId,
   dispatched |-> 0, handler |-> "",
   routedAs |-> [method |-> "", path |-> ""]]

\* zap: a record below the configured level is dropped
LogWrite(x, rec) ==
  IF LevelRank(rec.level) >= LevelRank(parseLogLevel(cfg.LogLevel))
    THEN [x EXCEPT !.logs = Append(@, rec)]
    ELSE x

\* net/http response.WriteHeader: the first call sends status and headers,
\* a later call is superfluous and changes nothing
ServerWriteHeader(x, code) ==
  IF x.sent THEN x
  ELSE [x EXCEPT !.sent = TRUE, !.code = code, !.sentHdr = x.hdr]

\* responseWriter.WriteHeader: record the code, then delegate
WriteHeader_noDelegate(x, code) ==
  IF x.wrapped THEN [x EXCEPT !.statusCode = code] ELSE ServerWriteHeader(x, code)

WriteHeader(x, code) ==
  ServerWriteHeader(IF x.wrapped THEN [x EXCEPT !.statusCode = code] ELSE x, code)

BodyAllowed(code) == code >= StatusOK /\ code # StatusNoContent

\* Write is promoted from the embedded http.ResponseWriter: an implicit 200
\* goes to the server's writer, not through responseWriter.WriteHeader
Write(x, chunk) ==
  LET y == ServerWriteHeader(x, StatusOK)
  IN IF BodyAllowed(y.code) THEN [y EXCEPT !.body = Append(@, chunk)] ELSE y

\* http.Error(w, msg, code)
HttpError(x, msg, code) ==
  Write(WriteHeader([x EXCEPT !.hdr.ctype = "text/plain; charset=utf-8",
                              !.hdr.nosniff = "nosniff"], code), msg)

\* a log record of the chain; fields a record does not carry are NoId, "" or 0
LogRecord(level, msg, id, method, path, status) ==
  [level |-> level, msg |-> msg, request_id |-> id, method |-> method,
   path |-> path, status |-> status]

\* the JSON document a handler encodes, named by its status field
JsonBody(resp) == resp.status

ContentType(path) ==
  IF path = "/metrics" THEN "text/plain; version=0.0.4" ELSE "application/json"

\* the handlers of main.go's mux: Content-Type, WriteHeader, Encode
RouteHandler(rq, x) ==
  LET resp == Mux(rq.path, ready)
      x1 == IF rq.path = "/api/v1/status"
              THEN LogWrite(x, LogRecord("debug", "status check", NoId, "", "", 0))
              ELSE x
      x2 == [x1 EXCEPT !.hdr.ctype = ContentType(rq.path)]
  IN Write(WriteHeader(x2, resp.code), JsonBody(resp))

\* a handler with one of the Faults
FaultHandler(rq, x) ==
  CASE rq.fault = "implicit"      -> Write(x, "ok")
    [] rq.fault = "double_header" -> WriteHeader(WriteHeader(x, StatusOK), StatusServiceUnavailable)
    [] rq.fault = "status_panic"  -> [WriteHeader(x, StatusOK) EXCEPT !.panicking = TRUE]
    [] rq.fault = "body_panic"    -> [Write(x, "partial") EXCEPT !.panicking = TRUE]
    [] OTHER                      -> [x EXCEPT !.panicking = TRUE]

\* path.Clean as http.ServeMux applies it to the request path: empty, "."
\* and ".." segments are removed
CleanPath(path) ==
  CASE path = "//other" -> "/other"
    [] OTHER            -> path

\* the pattern main.go registered that matches a canonical path, by the name
\* of its handler; "/" matches every path no other pattern matches
Route_noCatchAll(path) ==
  CASE path = "/healthz"       -> "Liveness"
    [] path = "/readyz"        -> "Readiness"
    [] path = "/metrics"       -> "promhttp"
    [] path = "/api/v1/info"   -> "Info"
    [] path = "/api/v1/status" -> "Status"
    [] OTHER                   -> "NotFound"

Route(path) ==
  CASE path = "/healthz"       -> "Liveness"
    [] path = "/readyz"        -> "Readiness"
    [] path = "/metrics"       -> "promhttp"
    [] path = "/api/v1/info"   -> "Info"
    [] path = "/api/v1/status" -> "Status"
    [] OTHER                   -> "Info"

\* http.ServeMux answers a path that is not canonical itself: http.Redirect
\* to the cleaned path with 301 Moved Permanently
RedirectHandler(rq, x) ==
  Write(WriteHeader([x EXCEPT !.hdr.location = CleanPath(rq.path),
                              !.hdr.ctype = "text/html; charset=utf-8"], 301),
        "Moved Permanently")

\* mux.ServeHTTP: the innermost call of the chain; handlerId is what a
\* handler gets from GetRequestID(r.Context()), dispatched counts the calls,
\* routedAs is the request line the mux was given and handler names the
\* handler it selected
Router(rq, x) ==
  LET x1 == [x EXCEPT !.routed = TRUE, !.handlerId = GetRequestID(x.ctxId),
                      !.dispatched = @ + 1,
                      !.routedAs = [method |-> rq.method, path |-> rq.path]]
  IN IF CleanPath(rq.path) # rq.path
       THEN RedirectHandler(rq, [x1 EXCEPT !.handler = "Redirect"])
     ELSE IF rq.fault = "none"
       THEN RouteHandler(rq, [x1 EXCEPT !.handler = Route(rq.path)])
     ELSE FaultHandler(rq, [x1 EXCEPT !.handler = "Fault"])

\* RequestID, before next: take the header or generate, store in the context
\* of the request handed on, set the response header
RequestID_headerOnly(rq, x) ==
  LET id == IF rq.hdr = NoId THEN rq.uuid ELSE rq.hdr
  IN [x EXCEPT !.hdr.xrid = id]

RequestID(rq, x) ==
  LET id == IF rq.hdr = NoId THEN rq.uuid ELSE rq.hdr
  IN [x EXCEPT !.ctxId = id, !.hdr.xrid = id]

\* Logging, before next: newResponseWriter(w)
LoggingWrap_bare(x) == [x EXCEPT !.statusCode = StatusOK]

LoggingWrap(x) == [x EXCEPT !.wrapped = TRUE, !.statusCode = StatusOK]

\* Logging, after next returned, on its own r and its wrapper's statusCode;
\* a panic passing through skips it
Logging_skipsOptions(rq, y) ==
  IF y.panicking \/ rq.method = "OPTIONS" THEN y
  ELSE LogWrite(y, LogRecord("info", "request completed", GetRequestID(y.ctxId),
                             rq.method, rq.path, y.statusCode))

Logging(rq, y) ==
  IF y.panicking THEN y
  ELSE LogWrite(y, LogRecord("info", "request completed", GetRequestID(y.ctxId),
                             rq.method, rq.path, y.statusCode))

\* recover() in the deferred function: non-nil only while a panic unwinds
Recovered_always(y) == TRUE

Recovered(y) == y.panicking

\* Recovery, the deferred function: recover, log, http.Error on its own w
Recovery_silent(rq, y) ==
  IF ~Recovered(y) THEN y
  ELSE HttpError([y EXCEPT !.panicking = FALSE], ErrorBody, StatusInternalServerError)

Recovery(rq, y) ==
  IF ~Recovered(y) THEN y
  ELSE HttpError(
         LogWrite([y EXCEPT !.panicking = FALSE],
                  LogRecord("error", "panic recovered", GetRequestID(y.ctxId),
                            "", rq.path, 0)),
         ErrorBody, StatusInternalServerError)

\* CORS: the three headers, set before anything else
CORSHeaders_originOnly(x) == [x EXCEPT !.hdr.acao = "*"]

CORSHeaders(x) ==
  [x EXCEPT !.hdr.acao = "*",
            !.hdr.acam = "GET, POST, OPTIONS",
            !.hdr.acah = "Content-Type, X-Request-ID"]

\* CORS answers a pre-flight itself and returns
Preflight_forwarded(rq) == FALSE

Preflight(rq) == rq.method = "OPTIONS"

\* a stage hands the writer and the context it created to the next stage
\* only: when next returns, the stage goes on with its own w and r
Return_leaks(x, y) == y

Return(x, y) == [y EXCEPT !.wrapped = x.wrapped, !.ctxId = x.ctxId]

RECURSIVE Serve(_, _, _)

\* CORS, not a pre-flight: next.ServeHTTP(w, r), once, with the writer and
\* the request it was given
CORSForward_twice(rest, rq, x) ==
  Return(x, Serve(rest, rq, Return(x, Serve(rest, rq, x))))

CORSForward(rest, rq, x) == Return(x, Serve(rest, rq, x))

Serve(stages, rq, x) ==
  IF stages = <<>> THEN Router(rq, x)
  ELSE LET s == Head(stages)
           rest == Tail(stages)
       IN CASE s = "RequestID" -> Return(x, Serve(rest, rq, RequestID(rq, x)))
            [] s = "Logging"   ->
                 Logging(rq, Return(x, Serve(rest, rq, LoggingWrap(x))))
            [] s = "Recovery"  ->
                 Recovery(rq, Return(x, Serve(rest, rq, x)))
            [] OTHER           ->
                 IF Preflight(rq)
                   THEN WriteHeader(CORSHeaders(x), StatusNoContent)
                   ELSE CORSForward(rest, rq, CORSHeaders(x))

\* net/http after the outermost handler returned: an unwritten response is
\* sent as 200; a panic that reached the server closes the connection
Finalize(y) == IF y.panicking THEN y ELSE ServerWriteHeader(y, StatusOK)

\* what the client receives
Observed(out) ==
  [code |-> out.code, hdr |-> out.sentHdr, body |-> out.body,
   aborted |-> out.panicking]

\* the root handler of main.go:57-63 applied to one request
Root(rq) == Finalize(Serve(Chain, rq, NewExchange))

\* a request as it arrives, with the value uuid.New() returns if called for it
Arriving(r) ==
  [method |-> r.method, path |-> r.path, hdr |-> r.hdr, fault |-> r.fault,
   uuid |-> NewUUID(chain.issued)]

\* one request through the chain while the listener is open
ChainServe ==
  /\ ~exited
  /\ lsnPc = "serving"
  /\ ~inShutdown
  /\ chain.served < MaxServed
  /\ \E r \in Requests :
       LET rq == Arriving(r)
       IN chain' = [served |-> chain.served + 1,
                    issued |-> IF rq.hdr = NoId
                                 THEN chain.issued \cup {rq.uuid}
                                 ELSE chain.issued,
                    last   |-> <<[rq |-> rq, ready |-> ready, out |-> Root(rq)]>>]
  /\ UNCHANGED <<conc, boot, mem, cfg, ready, mainPc, lsnPc, inShutdown, notified,
                 quit, sigCount, ctxLeft, shutdownErr, exited, exitCode, exitCause,
                 logs, req>>

\* the process once it serves: listener bound, signal.Notify registered, main
\* blocked on the quit channel
ChainInit ==
  /\ cfg \in [ShutdownTimeout : {MaxTimeout}, LogLevel : ChainLogLevels]
  /\ ready = NewHealthHandler
  /\ mainPc = "recv"
  /\ lsnPc = "serving"
  /\ inShutdown = FALSE
  /\ notified = TRUE
  /\ quit = 0
  /\ sigCount = 0
  /\ ctxLeft = NoDeadline
  /\ shutdownErr = "unset"
  /\ exited = FALSE
  /\ exitCode = NoExit
  /\ exitCause = "none"
  /\ logs = EmptyBag
  /\ req = [r \in ReqIds |-> NoReq]
  /\ chain = NoChain
  /\ conc = NoConc
  /\ boot = Booted
  /\ mem = NoMem

\* requests are served until the coordinator closes the listener
ChainNext ==
  \/ ChainServe
  \/ Signal
  \/ MainRecv
  \/ MainCtx
  \/ MainSetNotReady

ChainSpec == ChainInit /\ [][ChainNext]_vars

\* the last exchange
Exchanged == chain.last # <<>>
LastRq == chain.last[1].rq
LastOut == chain.last[1].out
LastSeen == Observed(chain.last[1].out)

\* C11: the response to a request without (or with an empty) X-Request-ID
\* carries a generated, non-empty id that no earlier request was given; the
\* response to a request with a non-empty X-Request-ID carries exactly that id.
C11_RequestIdFreshOrEchoed ==
  /\ [](Exchanged =>
          /\ ~LastSeen.aborted
          /\ LastSeen.hdr.xrid # NoId
          /\ LastRq.hdr # NoId => LastSeen.hdr.xrid = LastRq.hdr
          /\ LastRq.hdr = NoId => /\ LastSeen.hdr.xrid.src = "uuid"
                                  /\ LastSeen.hdr.xrid \in chain.issued)
  /\ [][(chain'.served = chain.served + 1 /\ chain'.last[1].rq.hdr = NoId)
          => Observed(chain'.last[1].out).hdr.xrid \notin chain.issued]_vars

\* two requests without the header have been answered, one with it is possible
C11_Witness ==
  /\ Exchanged
  /\ LastRq.hdr = NoId
  /\ chain.served = MaxServed
  /\ Cardinality(chain.issued) >= 2

\* the handler behind the chain was reached and panicked
HandlerPanicked ==
  /\ Exchanged
  /\ LastOut.routed
  /\ LastRq.fault \in {"panic", "status_panic", "body_panic"}

ErrorLines(out) == SelectSeq(out.logs, LAMBDA rec : rec.level = "error")

\* one error-level line, carrying the id of the response's X-Request-ID
OneErrorLineWithResponseId ==
  /\ Len(ErrorLines(LastOut)) = 1
  /\ ErrorLines(LastOut)[1].msg = "panic recovered"
  /\ ErrorLines(LastOut)[1].request_id = LastSeen.hdr.xrid

\* C12 (as stated): whenever a handler behind the full chain panics, the
\* process survives, the client observes 500 with the JSON error body, and
\* exactly one error-level line carries the response's request id.
C12_PanicAlwaysYields500 ==
  HandlerPanicked =>
    /\ ~exited
    /\ ~LastSeen.aborted
    /\ LastSeen.code = StatusInternalServerError
    /\ LastSeen.body = <<ErrorBody>>
    /\ OneErrorLineWithResponseId

\* C12 (amended): a panic never terminates the process or tears down the
\* exchange and is logged by exactly one error-level line carrying the
\* response's request id; the client observes 500 with the JSON error body
\* when the handler had written nothing before it panicked, and otherwise
\* keeps the status the handler had already sent.
C12_PanicBeforeWriteYields500 ==
  HandlerPanicked =>
    /\ ~exited
    /\ ~LastSeen.aborted
    /\ OneErrorLineWithResponseId
    /\ LastRq.fault = "panic" =>
         /\ LastSeen.code = StatusInternalServerError
         /\ LastSeen.body = <<ErrorBody>>
    /\ LastRq.fault # "panic" => LastSeen.code = StatusOK

C12_Witness ==
  /\ HandlerPanicked
  /\ LastRq.fault = "panic"
  /\ LastSeen.code = StatusInternalServerError
  /\ cfg.LogLevel = "error"

\* the last request through the same stages without Recovery: what had gone
\* to the client when the panic left the handler
SentBeforePanic == Observed(Serve(<<"RequestID", "Logging", "CORS">>, LastRq, NewExchange))

\* C13: on a recovered panic the 500 status and the JSON error body are
\* written only if nothing of the response had been sent; when the handler
\* had written a status or body bytes, Recovery adds nothing to the response.
C13_RecoveryWritesOnlyUnsentResponse ==
  HandlerPanicked =>
    IF LastRq.fault = "panic"
      THEN /\ LastSeen.code = StatusInternalServerError
           /\ LastSeen.body = <<ErrorBody>>
      ELSE /\ LastSeen.code = SentBeforePanic.code
           /\ LastSeen.body = SentBeforePanic.body

\* the three CORS headers as CORS sets them
HasCORSHeaders(hdr) ==
  /\ hdr.acao = "*"
  /\ hdr.acam = "GET, POST, OPTIONS"
  /\ hdr.acah = "Content-Type, X-Request-ID"

\* C14: an OPTIONS request to any path is answered 204 with no body and the
\* three CORS headers, and reaches neither the router nor a handler: nothing a
\* handler writes or logs appears.
C14_PreflightShortCircuits ==
  (Exchanged /\ LastRq.method = "OPTIONS") =>
    /\ LastSeen.code = StatusNoContent
    /\ LastSeen.body = <<>>
    /\ HasCORSHeaders(LastSeen.hdr)
    /\ LastSeen.hdr.ctype = ""
    /\ ~LastOut.routed
    /\ \A i \in 1..Len(LastOut.logs) : LastOut.logs[i].msg = "request completed"

C14_Witness ==
  /\ Exchanged
  /\ LastRq.method = "OPTIONS"
  /\ LastRq.path = "/api/v1/status"
  /\ cfg.LogLevel = "debug"
  /\ LastSeen.code = StatusNoContent

\* C15: every response that went through the chain carries the three CORS
\* headers, the 500 written after a recovered panic and the 503 of /readyz
\* included.
C15_EveryResponseHasCORS ==
  Exchanged => (~LastSeen.aborted /\ HasCORSHeaders(LastSeen.hdr))

\* the 500 of a recovered panic, served after the readiness flag was cleared
C15_Witness ==
  /\ HandlerPanicked
  /\ LastSeen.code = StatusInternalServerError
  /\ LastSeen.hdr.nosniff = "nosniff"
  /\ ~chain.last[1].ready

\* the chain with stages i and i+1 exchanged
SwapAt(stages, i) ==
  [k \in 1..Len(stages) |->
     IF k = i THEN stages[i + 1] ELSE IF k = i + 1 THEN stages[i] ELSE stages[k]]

\* what can be observed of one exchange: the response and the log lines
Trace(stages, rq) ==
  LET out == Finalize(Serve(stages, rq, NewExchange))
  IN [seen |-> Observed(out), logs |-> out.logs]

SwapObservable(i) ==
  \E r \in Requests : Trace(SwapAt(Chain, i), Arriving(r)) # Trace(Chain, Arriving(r))

\* C16 (as stated): the order is RequestID, Logging, Recovery, CORS, router,
\* and exchanging any two adjacent stages changes the response or the log
\* lines of at least one request.
C16_EveryAdjacentSwapObservable ==
  /\ Chain = <<"RequestID", "Logging", "Recovery", "CORS">>
  /\ \A i \in 1..(Len(Chain) - 1) : SwapObservable(i)

\* C16 (amended): the order is as stated; with the logger at debug or info,
\* exchanging RequestID with Logging or Logging with Recovery changes the log
\* lines of some request; exchanging Recovery with CORS changes neither the
\* response nor the log lines of any request served.
C16_SwapObservableExceptRecoveryCORS ==
  /\ Chain = <<"RequestID", "Logging", "Recovery", "CORS">>
  /\ cfg.LogLevel \in {"debug", "info"} => (SwapObservable(1) /\ SwapObservable(2))
  /\ Exchanged => Trace(SwapAt(Chain, 3), LastRq) = Trace(Chain, LastRq)

\* a panicking request whose exchange differs under the first two swaps and
\* is the same under the third
C16_Witness ==
  /\ HandlerPanicked
  /\ Trace(SwapAt(Chain, 1), LastRq) # Trace(Chain, LastRq)
  /\ Trace(SwapAt(Chain, 2), LastRq) # Trace(Chain, LastRq)
  /\ Trace(SwapAt(Chain, 3), LastRq) = Trace(Chain, LastRq)

CompletedLines(out) == SelectSeq(out.logs, LAMBDA rec : rec.msg = "request completed")

\* the one "request completed" record, written after everything downstream
OneCompletedLineLast ==
  /\ Len(CompletedLines(LastOut)) = 1
  /\ LastOut.logs[Len(LastOut.logs)].msg = "request completed"

\* C17 (as stated): every request entering the chain has exactly one "request
\* completed" record emitted, after the downstream stages returned, whether
\* the handler returned, panicked and was recovered, or the request was an
\* OPTIONS pre-flight.
C17_OneCompletedRecordPerRequest ==
  Exchanged => OneCompletedLineLast

\* C17 (amended): the same, when the configured log level is debug or info;
\* with the level at warn or error the record is not emitted at all.
C17_OneCompletedRecordAtInfoLevel ==
  Exchanged =>
    IF cfg.LogLevel \in {"debug", "info"}
      THEN OneCompletedLineLast
      ELSE Len(CompletedLines(LastOut)) = 0

\* a recovered panic: the error record, then the one completion record
C17_Witness ==
  /\ HandlerPanicked
  /\ cfg.LogLevel = "info"
  /\ Len(LastOut.logs) = 2
  /\ LastOut.logs[1].level = "error"
  /\ LastOut.logs[2].msg = "request completed"

\* C18: the status in the "request completed" record is the status the client
\* received from the downstream stages, 200 when none of them set one; also
\* when WriteHeader was called more than once and when the handler panicked
\* after it had written a status.
C18_LoggedStatusIsClientStatus ==
  (Exchanged /\ Len(CompletedLines(LastOut)) = 1) =>
    CompletedLines(LastOut)[1].status = LastSeen.code

\* the chain of main.go with the Logging stage taken out
WithoutLogging == <<"RequestID", "Recovery", "CORS">>

\* C19: the status, headers and body the client received are those the same
\* chain without the Logging stage produces for the same request.
C19_LoggingIsPureObserver ==
  (Exchanged /\ chain.last[1].ready = ready) =>
    LastSeen = Observed(Finalize(Serve(WithoutLogging, LastRq, NewExchange)))

\* a 503 of /readyz passed through the wrapper with its status recorded
C19_Witness ==
  /\ Exchanged
  /\ chain.last[1].ready = ready
  /\ LastRq.path = "/readyz"
  /\ LastSeen.code = StatusServiceUnavailable
  /\ LastOut.statusCode = StatusServiceUnavailable
  /\ LastSeen.body = <<"not_ready">>

\* the request was answered by the service's own handlers or stages
ServiceAnswered ==
  /\ Exchanged
  /\ LastRq.fault \in {"none", "panic"}
  /\ CleanPath(LastRq.path) = LastRq.path

\* C20 (as stated): every response of the service has status 200, 503 or 500,
\* for every method, path and readiness state.
C20_StatusIs200Or503Or500 ==
  ServiceAnswered =>
    LastSeen.code \in {StatusOK, StatusServiceUnavailable, StatusInternalServerError}

\* C20 (amended): an OPTIONS request is answered 204; every other request is
\* answered 503 by /readyz once the flag is cleared, 500 after a recovered
\* panic, and 200 otherwise.
C20_StatusByMethodAndRoute ==
  ServiceAnswered =>
    LastSeen.code =
      IF LastRq.method = "OPTIONS" THEN StatusNoContent
      ELSE IF LastRq.fault = "panic" THEN StatusInternalServerError
      ELSE IF LastRq.path = "/readyz" /\ ~chain.last[1].ready
             THEN StatusServiceUnavailable
      ELSE StatusOK

\* a pre-flight of /readyz answered 204 after the flag was cleared
C20_Witness ==
  /\ Exchanged
  /\ LastRq.method = "OPTIONS"
  /\ LastRq.path = "/readyz"
  /\ LastRq.fault = "none"
  /\ ~chain.last[1].ready
  /\ LastSeen.code = StatusNoContent

\* ----------------------------------------------------- concurrent handlers
\* net/http runs every connection's handler in a goroutine of its own.  The
\* steps of one request are: accepted, handler run (or panicked, then
\* recovered by Recovery), response delivered with Logging's record.

MaxConc == 2         \* connections handled concurrently during one run

ConcIds == 1..MaxConc

\* "/panic" stands for a route whose handler panics
ConcPaths == {"/readyz", "/api/v1/info", "/api/v1/status", "/panic"}

\* config.Load() with no variable set, and testConfig() of handlers_test.go
\* run at debug level
ConcConfigs ==
  {[ShutdownTimeout |-> MaxTimeout, LogLevel |-> "info",
    ServiceName |-> "platform-api", Version |-> "1.0.0",
    Environment |-> "development"],
   [ShutdownTimeout |-> MaxTimeout, LogLevel |-> "debug",
    ServiceName |-> "test-api", Version |-> "0.0.1", Environment |-> "test"]}

\* the fields of the JSON documents that matter here; a field a document
\* does not have is "" or <<>>
NoDoc == [status |-> "", checks |-> <<>>, service |-> "", version |-> "",
          environment |-> "", goroutines |-> 0]

\* readinessResponse
ReadinessDoc(isReady) ==
  [NoDoc EXCEPT !.status = Readiness(isReady).status,
                !.checks = <<[name |-> "server", status |-> boolToStatus(isReady)]>>]

\* infoResponse
InfoDoc_draining ==
  [NoDoc EXCEPT !.service = cfg.ServiceName, !.version = cfg.Version,
                !.environment = IF ready THEN cfg.Environment ELSE "draining"]

InfoDoc ==
  [NoDoc EXCEPT !.service = cfg.ServiceName, !.version = cfg.Version,
                !.environment = cfg.Environment]

\* runtime.NumGoroutine(), counted above the goroutines the process always
\* has: net/http serves every connection in a goroutine of its own
NumGoroutine_alone(inflight) == 1

NumGoroutine(inflight) == Cardinality(inflight)

\* statusResponse
StatusDoc(goroutines) ==
  [NoDoc EXCEPT !.status = Status.status, !.goroutines = goroutines]

\* the document the routed handler encodes
Encode(path, isReady, goroutines) ==
  CASE path = "/readyz"        -> ReadinessDoc(isReady)
    [] path = "/api/v1/status" -> StatusDoc(goroutines)
    [] path = "/healthz"       -> [NoDoc EXCEPT !.status = Liveness.status]
    [] OTHER                   -> InfoDoc

\* http.Error's body after a recovered panic
ErrorDoc == [NoDoc EXCEPT !.status = "internal server error"]

\* a connection: st is "idle", "accepted", "panicking", "handled", "done" or
\* "aborted"; afterPanic says that some handler had panicked before the
\* request arrived; isReady is what Readiness loaded, flag what the readiness
\* flag was when the handler ran, peers how many connections had a request in
\* flight then
NoSlot == [st |-> "idle", path |-> "/", afterPanic |-> FALSE, isReady |-> FALSE,
           flag |-> TRUE, peers |-> 0, code |-> 0, doc |-> NoDoc]

ConcInFlight == {c \in ConcIds : conc.slot[c].st \in {"accepted", "panicking", "handled"}}

ConcFrame ==
  UNCHANGED <<boot, mem, chain, cfg, mainPc, lsnPc, inShutdown, notified, quit,
              sigCount, ctxLeft, shutdownErr, exited, exitCode, exitCause, req>>

ConcAccept(c, p) ==
  /\ ~exited /\ lsnPc = "serving" /\ ~inShutdown
  /\ conc.slot[c].st = "idle"
  /\ \A d \in ConcIds : d < c => conc.slot[d].st # "idle"
  /\ conc' = [conc EXCEPT !.slot[c] = [NoSlot EXCEPT !.st = "accepted", !.path = p,
                                                     !.afterPanic = conc.panicked]]
  /\ UNCHANGED <<ready, logs>>
  /\ ConcFrame

\* Liveness, Readiness, Info or Status runs to its end
ConcHandle(c) ==
  /\ ~exited /\ conc.slot[c].st = "accepted" /\ conc.slot[c].path # "/panic"
  /\ LET path == conc.slot[c].path
     IN /\ conc' = [conc EXCEPT
                      !.slot[c].st = "handled",
                      !.slot[c].isReady = IF path = "/readyz" THEN ready ELSE FALSE,
                      !.slot[c].flag = ready,
                      !.slot[c].code = Mux(path, ready).code,
                      !.slot[c].peers = Cardinality(ConcInFlight),
                      !.slot[c].doc = Encode(path, ready, NumGoroutine(ConcInFlight)),
                      !.infos = IF path = "/api/v1/info" THEN @ \cup {InfoDoc} ELSE @]
        /\ logs' = IF path = "/api/v1/status"
                     THEN Emit(logs, "debug", "status check") ELSE logs
  /\ UNCHANGED ready
  /\ ConcFrame

\* what a panic in connection c's handler takes down besides c's own call
\* stack: Recovery recovers in the goroutine that panicked, nothing else
PanicCuts_process(c) == ConcInFlight \ {c}

PanicCuts(c) == {}

ConcPanic(c) ==
  /\ ~exited /\ conc.slot[c].st = "accepted" /\ conc.slot[c].path = "/panic"
  /\ conc' = [conc EXCEPT
                !.panicked = TRUE,
                !.slot = [d \in ConcIds |->
                            IF d = c THEN [conc.slot[c] EXCEPT !.st = "panicking"]
                            ELSE IF d \in PanicCuts(c)
                                   THEN [conc.slot[d] EXCEPT !.st = "aborted"]
                            ELSE conc.slot[d]]]
  /\ UNCHANGED <<ready, logs>>
  /\ ConcFrame

\* Recovery's deferred function: log, http.Error
ConcRecover(c) ==
  /\ ~exited /\ conc.slot[c].st = "panicking"
  /\ conc' = [conc EXCEPT !.slot[c].st = "handled",
                          !.slot[c].code = StatusInternalServerError,
                          !.slot[c].doc = ErrorDoc]
  /\ logs' = Emit(logs, "error", "panic recovered")
  /\ UNCHANGED ready
  /\ ConcFrame

\* the response is delivered and Logging writes its record
ConcFinish(c) ==
  /\ ~exited /\ conc.slot[c].st = "handled"
  /\ conc' = [conc EXCEPT !.slot[c].st = "done"]
  /\ logs' = Emit(logs, "info", "request completed")
  /\ UNCHANGED ready
  /\ ConcFrame

\* the coordinator has received a signal and created the drain context; the
\* listener stays open until Shutdown is called
ConcInit ==
  /\ cfg \in ConcConfigs
  /\ ready = NewHealthHandler
  /\ mainPc = "set_not_ready"
  /\ lsnPc = "serving"
  /\ inShutdown = FALSE
  /\ notified = TRUE
  /\ quit = 0
  /\ sigCount = 1
  /\ ctxLeft = cfg.ShutdownTimeout
  /\ shutdownErr = "unset"
  /\ exited = FALSE
  /\ exitCode = NoExit
  /\ exitCause = "none"
  /\ logs = EmptyBag
  /\ req = [r \in ReqIds |-> NoReq]
  /\ chain = NoChain
  /\ conc = [slot |-> [c \in ConcIds |-> NoSlot], panicked |-> FALSE, infos |-> {}]
  /\ boot = Booted
  /\ mem = NoMem

ConcNext ==
  \/ \E c \in ConcIds, p \in ConcPaths : ConcAccept(c, p)
  \/ \E c \in ConcIds : ConcHandle(c)
  \/ \E c \in ConcIds : ConcPanic(c)
  \/ \E c \in ConcIds : ConcRecover(c)
  \/ \E c \in ConcIds : ConcFinish(c)
  \/ MainSetNotReady

ConcSpec == ConcInit /\ [][ConcNext]_vars

\* connection c's request got the response its handler produces
ServedNormally(c) ==
  /\ conc.slot[c].code = Mux(conc.slot[c].path, conc.slot[c].isReady).code
  /\ conc.slot[c].doc = Encode(conc.slot[c].path, conc.slot[c].isReady,
                               conc.slot[c].peers)

\* C21: a step of a panicking request (the panic, its recovery) leaves the
\* readiness flag, the process and every other connection as they were; no
\* connection is ever cut; and every other request that was handled,
\* concurrently with the panic or arriving after it, has the response of its
\* handler.
C21_PanicIsIsolated ==
  /\ [](\A c \in ConcIds :
          /\ conc.slot[c].st # "aborted"
          /\ (conc.slot[c].st \in {"handled", "done"} /\ conc.slot[c].path # "/panic")
               => ServedNormally(c))
  /\ [][\A c \in ConcIds :
          (conc.slot[c].path = "/panic" /\ conc.slot[c].st \in {"accepted", "panicking"}
             /\ conc'.slot[c] # conc.slot[c])
            => /\ ready' = ready
               /\ exited' = exited
               /\ \A d \in ConcIds \ {c} : conc'.slot[d] = conc.slot[d]]_vars

\* a panic recovered while an earlier request was still in flight, that
\* request having the response of its handler
C21_Witness ==
  /\ conc.slot[1].path = "/readyz" /\ conc.slot[1].st = "handled"
  /\ ServedNormally(1) /\ conc.slot[1].code = StatusOK
  /\ conc.slot[2].path = "/panic" /\ conc.slot[2].st = "handled"
  /\ conc.slot[2].code = StatusInternalServerError
  /\ ready

\* C22: /api/v1/info answers 200 with service, version and environment equal
\* to the configured values; the configuration never changes, and all the
\* documents Info has returned, whatever ran in between (other requests,
\* panics, SetNotReady), are the same one.
C22_InfoReturnsConfiguredValues ==
  /\ [](\A c \in ConcIds :
          (conc.slot[c].path = "/api/v1/info" /\ conc.slot[c].st \in {"handled", "done"})
            => /\ conc.slot[c].code = StatusOK
               /\ conc.slot[c].doc.service = cfg.ServiceName
               /\ conc.slot[c].doc.version = cfg.Version
               /\ conc.slot[c].doc.environment = cfg.Environment)
  /\ [](Cardinality(conc.infos) <= 1)
  /\ [][cfg' = cfg]_vars

\* testConfig(): two calls answered, the flag cleared in between
C22_Witness ==
  /\ \A c \in {1, 2} : conc.slot[c].path = "/api/v1/info" /\ conc.slot[c].st = "done"
  /\ conc.slot[1].flag /\ ~conc.slot[2].flag
  /\ conc.slot[2].doc.service = "test-api"
  /\ conc.slot[2].doc.version = "0.0.1"
  /\ Cardinality(conc.infos) = 1

\* the step in which connection c's Status handler runs
StatusRuns(c) ==
  /\ conc.slot[c].path = "/api/v1/status"
  /\ conc.slot[c].st = "accepted"
  /\ conc'.slot[c].st = "handled"

\* C23: /api/v1/status answers 200 with status "operational" whether the
\* flag is set or cleared, and the handler's step changes nothing but its own
\* response and, at most, the log by one debug-level record.
C23_StatusIsReadOnly ==
  /\ [](\A c \in ConcIds :
          (conc.slot[c].path = "/api/v1/status" /\ conc.slot[c].st \in {"handled", "done"})
            => /\ conc.slot[c].code = StatusOK
               /\ conc.slot[c].doc.status = "operational")
  /\ [][\A c \in ConcIds :
          StatusRuns(c)
            => /\ \A d \in ConcIds \ {c} : conc'.slot[d] = conc.slot[d]
               /\ conc'.panicked = conc.panicked /\ conc'.infos = conc.infos
               /\ \/ logs' = logs
                  \/ logs' = logs (+) SetToBag({[level |-> "debug", msg |-> "status check"]})
               /\ UNCHANGED <<cfg, ready, mainPc, lsnPc, inShutdown, notified, quit,
                              sigCount, ctxLeft, shutdownErr, exited, exitCode,
                              exitCause, req, chain, boot, mem>>]_vars

\* answered after the flag was cleared, with the debug record written
C23_Witness ==
  /\ \E c \in ConcIds :
       /\ conc.slot[c].path = "/api/v1/status"
       /\ conc.slot[c].st = "handled"
       /\ ~conc.slot[c].flag
       /\ conc.slot[c].code = StatusOK
  /\ BagIn([level |-> "debug", msg |-> "status check"], logs)

\* C24: a /readyz response reports exactly one check, named "server", and is
\* (200, "ready", server "pass") when the flag was set as the handler ran and
\* (503, "not_ready", server "fail") when it was cleared, however SetNotReady
\* is interleaved with the request's steps.
C24_ReadyzCoherent ==
  \A c \in ConcIds :
    (conc.slot[c].path = "/readyz" /\ conc.slot[c].st \in {"handled", "done"})
      => /\ Len(conc.slot[c].doc.checks) = 1
         /\ conc.slot[c].doc.checks[1].name = "server"
         /\ <<conc.slot[c].code, conc.slot[c].doc.status,
              conc.slot[c].doc.checks[1].status>>
              = IF conc.slot[c].flag
                  THEN <<StatusOK, "ready", "pass">>
                  ELSE <<StatusServiceUnavailable, "not_ready", "fail">>

\* SetNotReady ran between the handler and the delivery of a "ready" answer,
\* and a second probe got "not_ready"
C24_Witness ==
  /\ conc.slot[1].path = "/readyz" /\ conc.slot[1].st = "handled"
  /\ conc.slot[1].code = StatusOK
  /\ ~ready
  /\ conc.slot[2].path = "/readyz" /\ conc.slot[2].st = "done"
  /\ conc.slot[2].doc.status = "not_ready"

\* ListenAndServe has returned a bind/listen error
BindFailed == lsnPc \in {"fatal", "exit"}

\* C25: after a bind/listen failure the process exits with a non-zero
\* status, the listener is not bound again, and the shutdown sequence does
\* not run: the readiness flag is not cleared and no drain is started.
C25_BindFailureIsFatal ==
  /\ [](BindFailed =>
          /\ ready
          /\ ~inShutdown
          /\ exited => exitCode # ExitSuccess)
  /\ [][BindFailed => BindFailed']_vars

\* ------------------------------------------------ configuration loading
\* Numeric and duration settings are character sequences, parsed as
\* strconv.Atoi and time.ParseDuration parse them; durations are in seconds.
Digits == <<"0", "1", "2", "3", "4", "5", "6", "7", "8", "9">>

IsDigit(c) == \E i \in 1..Len(Digits) : Digits[i] = c

DigitVal(c) == (CHOOSE i \in 1..Len(Digits) : Digits[i] = c) - 1

RECURSIVE DigitsValue(_)
DigitsValue(d) ==
  IF d = <<>> THEN 0
  ELSE DigitsValue(SubSeq(d, 1, Len(d) - 1)) * 10 + DigitVal(d[Len(d)])

Signed(s) == Len(s) > 0 /\ s[1] \in {"+", "-"}

Unsigned(s) == IF Signed(s) THEN Tail(s) ELSE s

Sign(s) == IF Signed(s) /\ s[1] = "-" THEN -1 ELSE 1

AllDigits(s) == Len(s) > 0 /\ \A i \in 1..Len(s) : IsDigit(s[i])

\* strconv.Atoi: an optional sign and at least one digit, nothing else
Atoi(s) ==
  IF AllDigits(Unsigned(s))
    THEN [ok |-> TRUE, n |-> Sign(s) * DigitsValue(Unsigned(s))]
    ELSE [ok |-> FALSE, n |-> 0]

UnitSeconds(u) ==
  CASE u = "s" -> 1
    [] u = "m" -> 60
    [] u = "h" -> 3600
    [] OTHER   -> 0

\* time.ParseDuration on one integer segment: an optional sign, then "0"
\* alone or digits followed by a unit; a bare number has no unit and fails
ParseDuration(s) ==
  LET u == Unsigned(s)
      n == Len(u)
  IN  IF u = <<"0">> THEN [ok |-> TRUE, d |-> 0]
      ELSE IF n >= 2 /\ AllDigits(SubSeq(u, 1, n - 1)) /\ UnitSeconds(u[n]) > 0
        THEN [ok |-> TRUE,
              d |-> Sign(s) * DigitsValue(SubSeq(u, 1, n - 1)) * UnitSeconds(u[n])]
        ELSE [ok |-> FALSE, d |-> 0]

\* os.LookupEnv: the value and whether the variable exists
LookupEnv(env, key) == env[key]

getEnv(env, key, defaultVal) ==
  IF LookupEnv(env, key).exists THEN LookupEnv(env, key).value ELSE defaultVal

getEnvInt_strict(env, key, defaultVal) ==
  IF LookupEnv(env, key).exists
    THEN Atoi(LookupEnv(env, key).value).n
    ELSE defaultVal

getEnvInt(env, key, defaultVal) ==
  IF LookupEnv(env, key).exists /\ Atoi(LookupEnv(env, key).value).ok
    THEN Atoi(LookupEnv(env, key).value).n
    ELSE defaultVal

getEnvDuration(env, key, defaultVal) ==
  IF LookupEnv(env, key).exists /\ ParseDuration(LookupEnv(env, key).value).ok
    THEN ParseDuration(LookupEnv(env, key).value).d
    ELSE defaultVal

Load(env) ==
  [ServiceName     |-> getEnv(env, "SERVICE_NAME", "platform-api"),
   Version         |-> getEnv(env, "SERVICE_VERSION", "1.0.0"),
   Environment     |-> getEnv(env, "ENVIRONMENT", "development"),
   Port            |-> getEnvInt(env, "PORT", 9090),
   ReadTimeout     |-> getEnvDuration(env, "READ_TIMEOUT", 5),
   WriteTimeout    |-> getEnvDuration(env, "WRITE_TIMEOUT", 10),
   IdleTimeout     |-> getEnvDuration(env, "IDLE_TIMEOUT", 120),
   ShutdownTimeout |-> getEnvDuration(env, "SHUTDOWN_TIMEOUT", 30),
   LogLevel        |-> getEnv(env, "LOG_LEVEL", "info")]

\* the zero Config, before Load has run
NoCfg ==
  [ServiceName |-> "", Version |-> "", Environment |-> "", Port |-> 0,
   ReadTimeout |-> 0, WriteTimeout |-> 0, IdleTimeout |-> 0,
   ShutdownTimeout |-> 0, LogLevel |-> ""]

UnsetStr == [exists |-> FALSE, value |-> ""]
Unset == [exists |-> FALSE, value |-> <<>>]
SetTo(v) == [exists |-> TRUE, value |-> v]

\* values the environment may give to PORT
PortInputs ==
  {Unset, SetTo(<<"8", "0", "8", "0">>), SetTo(<<"7", "0", "0", "0", "0">>),
   SetTo(<<"a", "b", "c">>), SetTo(<<>>)}

\* values the environment may give to the three connection timeouts
TimeoutInputs == {Unset, SetTo(<<"2", "m">>), SetTo(<<"3", "0">>)}

\* values the environment may give to SHUTDOWN_TIMEOUT
DrainInputs ==
  {Unset, SetTo(<<"1", "s">>), SetTo(<<"0">>), SetTo(<<"3", "0">>),
   SetTo(<<"1", "x">>), SetTo(<<>>)}

LevelInputs ==
  {UnsetStr, SetTo("debug"), SetTo("warn"), SetTo("error"), SetTo("verbose"),
   SetTo("")}

Envs ==
  [SERVICE_NAME     : {UnsetStr, SetTo("test-api")},
   SERVICE_VERSION  : {UnsetStr, SetTo("0.0.1")},
   ENVIRONMENT      : {UnsetStr, SetTo("production")},
   PORT             : PortInputs,
   READ_TIMEOUT     : TimeoutInputs,
   WRITE_TIMEOUT    : TimeoutInputs,
   IDLE_TIMEOUT     : TimeoutInputs,
   SHUTDOWN_TIMEOUT : DrainInputs,
   LOG_LEVEL        : LevelInputs]

\* the environment with no variable set
EmptyEnv ==
  [SERVICE_NAME |-> UnsetStr, SERVICE_VERSION |-> UnsetStr,
   ENVIRONMENT |-> UnsetStr, PORT |-> Unset, READ_TIMEOUT |-> Unset,
   WRITE_TIMEOUT |-> Unset, IDLE_TIMEOUT |-> Unset,
   SHUTDOWN_TIMEOUT |-> Unset, LOG_LEVEL |-> UnsetStr]

NoTime == -1

NoProbe == [path |-> "", at |-> NoTime, uptime |-> NoTime]

\* main() before its first statement
Booting(env) ==
  [pc |-> "load", env |-> env, level |-> "", now |-> 0,
   healthStart |-> NoTime, apiStart |-> NoTime, probe |-> NoProbe]

BootFrame ==
  UNCHANGED <<mem, conc, chain, ready, mainPc, lsnPc, inShutdown, notified,
              quit, sigCount, ctxLeft, shutdownErr, exited, exitCode,
              exitCause, logs, req>>

\* cfg := config.Load()
BootLoad ==
  /\ boot.pc = "load"
  /\ cfg' = Load(boot.env)
  /\ boot' = [boot EXCEPT !.pc = "logger"]
  /\ BootFrame

\* logger := middleware.NewLogger(cfg.LogLevel, cfg.Environment)
BootNewLogger ==
  /\ boot.pc = "logger"
  /\ boot' = [boot EXCEPT !.pc = "new_health",
                          !.level = parseLogLevel(cfg.LogLevel)]
  /\ UNCHANGED cfg
  /\ BootFrame

LoadInit ==
  /\ cfg = NoCfg
  /\ boot \in {Booting(env) : env \in Envs}
  /\ ready = FALSE
  /\ mainPc = "boot"
  /\ lsnPc = "none"
  /\ inShutdown = FALSE
  /\ notified = FALSE
  /\ quit = 0
  /\ sigCount = 0
  /\ ctxLeft = NoDeadline
  /\ shutdownErr = "unset"
  /\ exited = FALSE
  /\ exitCode = NoExit
  /\ exitCause = "none"
  /\ logs = EmptyBag
  /\ req = [r \in ReqIds |-> NoReq]
  /\ chain = NoChain
  /\ conc = NoConc
  /\ mem = NoMem

LoadNext == BootLoad \/ BootNewLogger

LoadSpec == LoadInit /\ [][LoadNext]_vars

\* values no parser of the setting accepts
BadInts == {SetTo(<<"a", "b", "c">>), SetTo(<<>>)}
BadDurations == {SetTo(<<"3", "0">>), SetTo(<<"1", "x">>), SetTo(<<>>)}
BadLevels == {SetTo("verbose"), SetTo("")}

\* C26: a malformed value of a setting makes the setting take its documented
\* default (port 9090, read 5s, write 10s, idle 120s, shutdown 30s, level
\* info), and configuration loading never makes startup fail: Load and
\* NewLogger can always proceed. The free-form settings (service name,
\* version, environment) have no parser: unset they take their defaults, set
\* they are taken as they are.
C26_MalformedFallsBackToDefault ==
  /\ boot.pc = "load" => ENABLED BootLoad
  /\ boot.pc = "logger" => ENABLED BootNewLogger
  /\ boot.pc \in {"logger", "new_health"} =>
       /\ boot.env.PORT \in BadInts => cfg.Port = 9090
       /\ boot.env.READ_TIMEOUT \in BadDurations => cfg.ReadTimeout = 5
       /\ boot.env.WRITE_TIMEOUT \in BadDurations => cfg.WriteTimeout = 10
       /\ boot.env.IDLE_TIMEOUT \in BadDurations => cfg.IdleTimeout = 120
       /\ boot.env.SHUTDOWN_TIMEOUT \in BadDurations => cfg.ShutdownTimeout = 30
       /\ ~boot.env.SERVICE_NAME.exists => cfg.ServiceName = "platform-api"
       /\ ~boot.env.SERVICE_VERSION.exists => cfg.Version = "1.0.0"
       /\ ~boot.env.ENVIRONMENT.exists => cfg.Environment = "development"
       /\ boot.env.SERVICE_NAME.exists
            => cfg.ServiceName = boot.env.SERVICE_NAME.value
  /\ boot.pc = "new_health" =>
       (boot.env.LOG_LEVEL \in BadLevels => boot.level = "info")

\* start-up got past Load and NewLogger with a malformed port, a malformed
\* drain timeout and an unknown log level, next to a well-formed read timeout
C26_Witness ==
  /\ boot.pc = "new_health"
  /\ boot.env.PORT = SetTo(<<"a", "b", "c">>)
  /\ boot.env.SHUTDOWN_TIMEOUT = SetTo(<<"3", "0">>)
  /\ boot.env.LOG_LEVEL = SetTo("verbose")
  /\ boot.env.READ_TIMEOUT = SetTo(<<"2", "m">>)
  /\ cfg.ReadTimeout = 120
  /\ cfg.Port = 9090 /\ cfg.ShutdownTimeout = 30 /\ boot.level = "info"

\* ------------------------------------------------------ memory rendering
MaxMemSteps == 40
mb == 1048576

\* a sixteenth of a mebibyte: 0.0625 MiB
MemStep == mb \div 16

\* byte counts runtime.ReadMemStats may report: a grid that holds the exact
\* mebibytes and the ties of the second decimal, and the neighbours of a
\* rounding boundary and of one mebibyte
MemInputs ==
  {k * MemStep : k \in 0..MaxMemSteps}
    \cup {1, 5242, 5243, 15728, 15729, mb - 1, mb + 1}

\* strconv.Itoa on a natural number
RECURSIVE Itoa(_)
Itoa(n) ==
  IF n < 10 THEN <<Digits[n + 1]>>
  ELSE Itoa(n \div 10) \o <<Digits[(n % 10) + 1]>>

\* float64(b)/float64(mb) in hundredths: the quotient is exact in binary
\* floating point, and FormatFloat rounds its decimal expansion to the
\* nearest hundredth, a tie going to the even digit
Hundredths_truncated(b) == (b * 100) \div mb

Hundredths(b) ==
  LET q == (b * 100) \div mb
      r == (b * 100) % mb
  IN  IF 2 * r > mb \/ (2 * r = mb /\ q % 2 = 1) THEN q + 1 ELSE q

\* strconv.FormatFloat(x, 'f', 2, 64): integer part, a point, two decimals
FormatFloat2(h) ==
  Itoa(h \div 100) \o <<".">> \o <<Digits[((h \div 10) % 10) + 1]>>
    \o <<Digits[(h % 10) + 1]>>

formatBytes(b) == FormatFloat2(Hundredths(b))

MemFrame ==
  UNCHANGED <<cfg, boot, conc, chain, ready, mainPc, lsnPc, inShutdown,
              notified, quit, sigCount, ctxLeft, shutdownErr, exited,
              exitCode, exitCause, logs, req>>

\* runtime.ReadMemStats(&memStats)
MemRead(b) ==
  /\ mem.pc \in {"idle", "formatted"}
  /\ mem' = [mem EXCEPT !.pc = "read", !.alloc = b]
  /\ MemFrame

\* MemoryAlloc: formatBytes(memStats.Alloc)
MemFormat ==
  /\ mem.pc = "read"
  /\ mem' = [mem EXCEPT !.pc = "formatted", !.text = formatBytes(mem.alloc)]
  /\ MemFrame

FormatInit ==
  /\ cfg = Load(EmptyEnv)
  /\ ready = NewHealthHandler
  /\ mainPc = "recv"
  /\ lsnPc = "serving"
  /\ inShutdown = FALSE
  /\ notified = TRUE
  /\ quit = 0
  /\ sigCount = 0
  /\ ctxLeft = NoDeadline
  /\ shutdownErr = "unset"
  /\ exited = FALSE
  /\ exitCode = NoExit
  /\ exitCause = "none"
  /\ logs = EmptyBag
  /\ req = [r \in ReqIds |-> NoReq]
  /\ chain = NoChain
  /\ conc = NoConc
  /\ boot = Booted
  /\ mem = NoMem

FormatNext == (\E b \in MemInputs : MemRead(b)) \/ MemFormat

FormatSpec == FormatInit /\ [][FormatNext]_vars

\* the rendered text read back as a number of hundredths
TextHundredths(t) ==
  DigitsValue(SubSeq(t, 1, Len(t) - 3) \o SubSeq(t, Len(t) - 1, Len(t)))

\* C27: formatBytes renders a byte count as mebibytes with exactly two
\* decimals: 0 gives "0.00", 1,048,576 gives "1.00", 2,097,152 gives "2.00",
\* and in general the text is the byte count divided by 1,048,576 rounded to
\* the nearest hundredth.
C27_FormatBytesTwoDecimals ==
  mem.pc = "formatted" =>
    /\ Len(mem.text) >= 4
    /\ mem.text[Len(mem.text) - 2] = "."
    /\ \A i \in 1..Len(mem.text) : i # Len(mem.text) - 2 => IsDigit(mem.text[i])
    /\ Len(mem.text) > 4 => mem.text[1] # "0"
    /\ 2 * (mem.alloc * 100 - TextHundredths(mem.text) * mb) <= mb
    /\ 2 * (TextHundredths(mem.text) * mb - mem.alloc * 100) <= mb
    /\ mem.alloc = 0 => mem.text = <<"0", ".", "0", "0">>
    /\ mem.alloc = 1048576 => mem.text = <<"1", ".", "0", "0">>
    /\ mem.alloc = 2097152 => mem.text = <<"2", ".", "0", "0">>

\* a count just above a rounding boundary was rendered with the upper
\* hundredth: 5243 bytes are 0.0050001 MiB
C27_Witness ==
  /\ mem.pc = "formatted"
  /\ mem.alloc = 5243
  /\ mem.text = <<"0", ".", "0", "1">>

\* ------------------------------------------------- start times and uptime
\* The clock counts half seconds, so that Round(time.Second) has a tie.
MaxClock == 4
TicksPerSecond == 2

\* time.Duration.Round(time.Second), in seconds: halfway values round away
\* from zero
RoundToSecond(d) == (2 * d + TicksPerSecond) \div (2 * TicksPerSecond)

\* the start time a handler computes its uptime from: Readiness reads the
\* HealthHandler's field, Status the APIHandler's
StartOf_shared(path) == boot.healthStart

StartOf(path) ==
  IF path = "/readyz" THEN boot.healthStart ELSE boot.apiStart

\* time.Since(startTime).Round(time.Second)
Uptime(path) == RoundToSecond(boot.now - StartOf(path))

UptimeFrame ==
  UNCHANGED <<cfg, mem, conc, chain, mainPc, lsnPc, inShutdown, notified,
              quit, sigCount, ctxLeft, shutdownErr, exited, exitCode,
              exitCause, logs, req>>

\* the monotonic clock advances
BootTick ==
  /\ boot.now < MaxClock
  /\ boot' = [boot EXCEPT !.now = @ + 1]
  /\ UNCHANGED ready
  /\ UptimeFrame

\* healthHandler := handlers.NewHealthHandler(logger)
BootNewHealthHandler ==
  /\ boot.pc = "new_health"
  /\ boot' = [boot EXCEPT !.pc = "new_api", !.healthStart = boot.now]
  /\ ready' = NewHealthHandler
  /\ UptimeFrame

\* apiHandler := handlers.NewAPIHandler(logger, cfg)
BootNewAPIHandler ==
  /\ boot.pc = "new_api"
  /\ boot' = [boot EXCEPT !.pc = "serving", !.apiStart = boot.now]
  /\ UNCHANGED ready
  /\ UptimeFrame

\* a Readiness or a Status handler computes the uptime it reports
BootProbe(path) ==
  /\ boot.pc = "serving"
  /\ boot' = [boot EXCEPT
                !.probe = [path |-> path, at |-> boot.now,
                           uptime |-> Uptime(path)]]
  /\ UNCHANGED ready
  /\ UptimeFrame

UptimeInit ==
  /\ cfg = Load(EmptyEnv)
  /\ boot = [Booting(EmptyEnv) EXCEPT !.pc = "new_health", !.level = "info"]
  /\ ready = FALSE
  /\ mainPc = "boot"
  /\ lsnPc = "none"
  /\ inShutdown = FALSE
  /\ notified = FALSE
  /\ quit = 0
  /\ sigCount = 0
  /\ ctxLeft = NoDeadline
  /\ shutdownErr = "unset"
  /\ exited = FALSE
  /\ exitCode = NoExit
  /\ exitCause = "none"
  /\ logs = EmptyBag
  /\ req = [r \in ReqIds |-> NoReq]
  /\ chain = NoChain
  /\ conc = NoConc
  /\ mem = NoMem

UptimeNext ==
  \/ BootTick
  \/ BootNewHealthHandler
  \/ BootNewAPIHandler
  \/ \E path \in {"/readyz", "/api/v1/status"} : BootProbe(path)

UptimeSpec == UptimeInit /\ [][UptimeNext]_vars

\* a start time, once captured, keeps its value
StartTimesImmutable ==
  /\ boot.healthStart # NoTime => boot.healthStart' = boot.healthStart
  /\ boot.apiStart # NoTime => boot.apiStart' = boot.apiStart

\* C28 as stated: there is a single start timestamp, captured once and never
\* mutated, and the uptime of both the readiness and the status response is
\* computed from that same timestamp.
C28_SingleStartTime ==
  /\ [](boot.pc = "serving" => boot.healthStart = boot.apiStart)
  /\ [](boot.probe # NoProbe =>
          boot.probe.uptime = RoundToSecond(boot.probe.at - boot.healthStart))
  /\ [][StartTimesImmutable]_vars

\* C28 amended: each of the two handlers captures its own start timestamp once
\* when it is constructed, the health handler's first, and neither is
\* mutated afterwards; readiness uptime is computed from the health handler's
\* timestamp and status uptime from the API handler's.
C28_StartTimePerHandler ==
  /\ [](boot.pc = "serving" =>
          /\ boot.healthStart # NoTime
          /\ boot.healthStart <= boot.apiStart
          /\ boot.apiStart <= boot.now)
  /\ [](boot.probe.path = "/readyz" =>
          boot.probe.uptime = RoundToSecond(boot.probe.at - boot.healthStart))
  /\ [](boot.probe.path = "/api/v1/status" =>
          boot.probe.uptime = RoundToSecond(boot.probe.at - boot.apiStart))
  /\ [][StartTimesImmutable]_vars

\* the clock moved between the two constructors, and a status response
\* reported an uptime that the health handler's timestamp does not give
C28_Witness ==
  /\ boot.pc = "serving"
  /\ boot.healthStart < boot.apiStart
  /\ boot.probe.path = "/api/v1/status"
  /\ boot.probe.uptime # RoundToSecond(boot.probe.at - boot.healthStart)

\* ------------------------------------------------ correlation id in context
\* the ids Logging and Recovery read from the context for their records
RetrievedIds(out) ==
  {out.logs[i].request_id : i \in {j \in 1..Len(out.logs) :
                             out.logs[j].msg \in {"request completed",
                                                  "panic recovered"}}}
    \cup (IF out.routed THEN {out.handlerId} ELSE {})

\* C29 as stated: the id every downstream stage and handler retrieves from
\* the request context equals the X-Request-ID response header of the request
\* and is never the fallback value "unknown"; the fallback is returned only
\* for a context that carries no id.
C29_RetrievedIdNeverUnknown ==
  /\ Exchanged =>
       \A id \in RetrievedIds(LastOut) :
          id = LastOut.sentHdr.xrid /\ id # UnknownId
  /\ \A id \in ClientIds \cup chain.issued : GetRequestID(id) = id
  /\ GetRequestID(NoId) = UnknownId

\* C29 amended: the retrieved id equals the X-Request-ID response header, which
\* is the client's id or else the generated one; the fallback is returned only
\* for a context that carries no id, which no downstream stage has; and the
\* retrieved value is "unknown" only when the client itself sent
\* X-Request-ID: unknown.
C29_RetrievedIdIsResponseId ==
  /\ Exchanged =>
       /\ \A id \in RetrievedIds(LastOut) :
            /\ id = LastOut.sentHdr.xrid
            /\ id = (IF LastRq.hdr = NoId THEN LastRq.uuid ELSE LastRq.hdr)
            /\ id = UnknownId => LastRq.hdr = UnknownId
  /\ \A id \in ClientIds \cup chain.issued : GetRequestID(id) = id
  /\ GetRequestID(NoId) = UnknownId

\* a handler was reached and panicked on a request without the header:
\* Recovery's record and the handler both hold the generated id of the response
C29_Witness ==
  /\ HandlerPanicked
  /\ LastRq.hdr = NoId
  /\ Cardinality(RetrievedIds(LastOut)) = 1
  /\ LastOut.handlerId = LastOut.sentHdr.xrid
  /\ LastOut.handlerId.src = "uuid"

\* ------------------------------------------------ signals while listening
\* C30: a signal delivered while the server is accepting connections moves
\* the coordinator into the shutdown sequence: no signal terminates the
\* process while the listener is serving and the readiness flag is still set,
\* and a signal delivered to the serving process is either queued for the
\* coordinator or finds the coordinator already past its receive.
C30_SignalWhileListeningShutsDown ==
  /\ []((exited /\ exitCause = "signal" /\ lsnPc = "serving") => ~ready)
  /\ [][(sigCount' = sigCount + 1 /\ lsnPc = "serving")
          => /\ ~exited'
             /\ quit' > 0 \/ mainPc \notin {"spawn", "notify", "recv"}]_vars

\* ----------------------------------------- listener return after Shutdown
\* C31: a signal-triggered shutdown never takes the fatal startup path,
\* whatever the interleaving of the listener goroutine with the coordinator:
\* the path is entered only by a ListenAndServe call that failed to bind
\* before Shutdown was called; a listener that was bound, and a call made
\* after Shutdown, end with the goroutine returning.
C31_ShutdownIsNotStartupFailure ==
  /\ [][(lsnPc # "fatal" /\ lsnPc' = "fatal")
          => (lsnPc = "listen" /\ ~inShutdown)]_vars
  /\ [][lsnPc = "serving" => lsnPc' \in {"serving", "closed"}]_vars
  /\ [][(lsnPc = "listen" /\ inShutdown) => lsnPc' \in {"listen", "closed"}]_vars
  /\ [](exitCause = "fatal" => lsnPc = "exit")
  /\ [](lsnPc = "closed" => inShutdown /\ exitCause # "fatal")

\* the coordinator finished a signal-triggered shutdown with exit status 0
\* and the listener goroutine returned without the fatal path
C31_Witness ==
  /\ exited /\ exitCause = "main" /\ exitCode = ExitSuccess
  /\ sigCount > 0
  /\ lsnPc = "closed"

\* ------------------------------------------------ no accept during drain
\* C32: once the coordinator has called Shutdown no new connection is
\* accepted: no request leaves the not-yet-accepted state, and every request
\* handled or completed during the drain was accepted before it began.
C32_NoAcceptAfterDrainBegan ==
  /\ [][inShutdown =>
          \A r \in ReqIds : req[r].st = "new" => req'[r].st = "new"]_vars
  /\ [][\A r \in ReqIds :
          (req[r].st = "new" /\ req'[r].st # "new") => ~inShutdown']_vars
  /\ [](\A r \in ReqIds : req[r].doneIn \in {"drain", "expired"}
                             => req[r].phase # "none")

\* Shutdown has been called, the listener goroutine has not yet returned, and
\* a request accepted earlier was completed during the drain
C32_Witness ==
  /\ inShutdown /\ ~exited
  /\ \E r \in ReqIds : req[r].st = "done" /\ req[r].doneIn = "drain"

\* ------------------------------------------------------- route dispatch
\* paths that main.go registers a pattern of their own for
OwnRoutes ==
  {"/healthz", "/readyz", "/metrics", "/api/v1/info", "/api/v1/status"}

\* a request that reaches the handlers main.go registered
Dispatchable ==
  /\ Exchanged
  /\ LastRq.method # "OPTIONS"
  /\ LastRq.fault = "none"

\* C33 as stated: every non-OPTIONS request is dispatched to exactly one
\* handler whatever its method, and a request whose path matches no other
\* registered route is served by the Info handler with 200, not a not-found.
C33_CatchAllServesInfo ==
  Dispatchable =>
    /\ LastOut.dispatched = 1
    /\ LastRq.path \notin OwnRoutes =>
         /\ LastOut.handler = "Info"
         /\ LastSeen.code = StatusOK

\* C33 amended: every non-OPTIONS request is dispatched exactly once whatever
\* its method; a request whose path is canonical and matches no other
\* registered route is served by the Info handler with 200; a request whose
\* path is not canonical is answered by the mux itself with a 301 redirect
\* to the cleaned path; no request is answered not-found.
C33_CatchAllServesInfoOnCleanPaths ==
  Dispatchable =>
    /\ LastOut.dispatched = 1
    /\ LastOut.handler # "NotFound"
    /\ IF CleanPath(LastRq.path) = LastRq.path
         THEN /\ LastOut.handler = Route(LastRq.path)
              /\ LastRq.path \notin OwnRoutes =>
                   /\ LastOut.handler = "Info"
                   /\ LastSeen.code = StatusOK
                   /\ LastSeen.body = <<JsonBody(Info)>>
         ELSE /\ LastOut.handler = "Redirect"
              /\ LastSeen.code = 301
              /\ LastSeen.hdr.location = CleanPath(LastRq.path)

\* a POST to a path without a route of its own was served by Info with 200
C33_Witness ==
  /\ Dispatchable
  /\ LastRq.method = "POST"
  /\ LastRq.path = "/other"
  /\ LastOut.handler = "Info"
  /\ LastSeen.code = StatusOK

\* ------------------------------------------------ Recovery on normal return
WithoutRecovery == <<"RequestID", "Logging", "CORS">>

\* the wrapped call returned without a panic
ReturnedNormally ==
  /\ Exchanged
  /\ LastRq.fault \notin {"panic", "status_panic", "body_panic"}

\* C34: the deferred block of Recovery runs on every exit path of the wrapped
\* call. After a panic it acts: the panic does not leave the chain and one
\* error record is written. After a normal return it is transparent: no
\* error record, and response and log are those of the chain without the
\* Recovery stage.
C34_RecoveryTransparentOnReturn ==
  /\ HandlerPanicked =>
       /\ ~LastSeen.aborted
       /\ Len(ErrorLines(LastOut)) = 1
  /\ ReturnedNormally =>
       /\ ErrorLines(LastOut) = <<>>
       /\ chain.last[1].ready = ready =>
            [seen |-> LastSeen, logs |-> LastOut.logs]
              = Trace(WithoutRecovery, LastRq)

\* a handler that calls WriteHeader twice returned normally through Recovery
C34_Witness ==
  /\ ReturnedNormally
  /\ LastRq.fault = "double_header"
  /\ LastOut.routed
  /\ LastSeen.code = StatusOK
  /\ ErrorLines(LastOut) = <<>>

\* ------------------------------------------------------ CORS pass-through
WithoutCORS == <<"RequestID", "Logging", "Recovery">>

\* the headers of a response with the three CORS headers taken out
StripCORS(hdr) == [hdr EXCEPT !.acao = "", !.acam = "", !.acah = ""]

\* C35: for every request whose method is not OPTIONS the CORS stage calls
\* the next stage exactly once with method and path unchanged, and the
\* response differs from the one of the chain without CORS by the three CORS
\* headers and nothing else; the log is the same.
C35_CORSPassesThrough ==
  (Exchanged /\ LastRq.method # "OPTIONS") =>
    /\ LastOut.dispatched = 1
    /\ LastOut.routedAs = [method |-> LastRq.method, path |-> LastRq.path]
    /\ chain.last[1].ready = ready =>
         LET bare == Trace(WithoutCORS, LastRq)
         IN /\ bare.logs = LastOut.logs
            /\ bare.seen = [LastSeen EXCEPT !.hdr = StripCORS(LastSeen.hdr)]
            /\ ~LastSeen.aborted => HasCORSHeaders(LastSeen.hdr)

\* a POST was passed on to the Status handler and answered 200 with the
\* three headers
C35_Witness ==
  /\ Exchanged
  /\ LastRq.method = "POST"
  /\ LastRq.path = "/api/v1/status"
  /\ LastOut.dispatched = 1
  /\ LastSeen.code = StatusOK
  /\ HasCORSHeaders(LastSeen.hdr)

\* ------------------------------------------- pre-flight and observability
\* C36: an OPTIONS pre-flight bypasses only the router: the response carries
\* an X-Request-ID, and the record Logging writes for it carries that id and
\* status 204. Logging writes the record at levels debug and info.
C36_PreflightIsObserved ==
  (Exchanged /\ LastRq.method = "OPTIONS") =>
    /\ ~LastOut.routed /\ LastOut.dispatched = 0
    /\ LastSeen.code = StatusNoContent
    /\ LastSeen.hdr.xrid # NoId
    /\ LastSeen.hdr.xrid = (IF LastRq.hdr = NoId THEN LastRq.uuid ELSE LastRq.hdr)
    /\ \A i \in 1..Len(LastOut.logs) :
         /\ LastOut.logs[i].msg = "request completed"
         /\ LastOut.logs[i].request_id = LastSeen.hdr.xrid
         /\ LastOut.logs[i].status = StatusNoContent
         /\ LastOut.logs[i].method = "OPTIONS"
    /\ Len(LastOut.logs) =
         (IF parseLogLevel(cfg.LogLevel) \in {"debug", "info"} THEN 1 ELSE 0)

\* a pre-flight with the client's own id was answered and logged with it
C36_Witness ==
  /\ Exchanged
  /\ LastRq.method = "OPTIONS"
  /\ LastRq.hdr \in ClientIds
  /\ Len(LastOut.logs) = 1
  /\ LastOut.logs[1].request_id = LastRq.hdr
  /\ LastOut.logs[1].status = StatusNoContent
  /\ LastSeen.hdr.xrid = LastRq.hdr

\* ------------------------------------------------- shared state of requests
\* connection c's handler has produced its response without panicking
Answered(c) ==
  /\ conc.slot[c].st \in {"handled", "done"}
  /\ conc.slot[c].path # "/panic"

\* a step of a handler or of a middleware stage, not of the coordinator
RequestStep == conc' # conc

\* the handlers and the stages leave the readiness flag, the configuration
\* and the start timestamps as they were
RequestsChangeNoSharedState ==
  RequestStep => (ready' = ready /\ cfg' = cfg /\ boot' = boot)

\* C37 as stated: handlers and stages leave the readiness flag, the
\* configuration and the start timestamps unchanged, and the response to a
\* request depends only on the flag value (and the clock), never on which
\* other requests ran concurrently or before it.
C37_ResponseDependsOnFlagOnly ==
  /\ [][RequestsChangeNoSharedState]_vars
  /\ [](\A c, d \in ConcIds :
          (/\ Answered(c) /\ Answered(d)
           /\ conc.slot[c].path = conc.slot[d].path
           /\ conc.slot[c].flag = conc.slot[d].flag)
            => /\ conc.slot[c].code = conc.slot[d].code
               /\ conc.slot[c].doc = conc.slot[d].doc)

\* C37 amended: handlers and stages leave the readiness flag, the
\* configuration and the start timestamps unchanged; the responses of
\* /readyz and /api/v1/info depend only on the flag value; the response of
\* /api/v1/status has the same code and status whatever else runs, but its
\* goroutine count is the number of requests in flight when the handler ran.
C37_ResponseDependsOnFlagAndRuntime ==
  /\ [][RequestsChangeNoSharedState]_vars
  /\ [](\A c, d \in ConcIds :
          (/\ Answered(c) /\ Answered(d)
           /\ conc.slot[c].path = conc.slot[d].path
           /\ conc.slot[c].flag = conc.slot[d].flag)
            => /\ conc.slot[c].code = conc.slot[d].code
               /\ conc.slot[c].doc.status = conc.slot[d].doc.status
               /\ \/ conc.slot[c].doc = conc.slot[d].doc
                  \/ /\ conc.slot[c].path = "/api/v1/status"
                     /\ conc.slot[c].peers # conc.slot[d].peers)
  /\ [](\A c \in ConcIds :
          (Answered(c) /\ conc.slot[c].path = "/api/v1/status")
            => conc.slot[c].doc.goroutines = conc.slot[c].peers)

\* two status requests with the flag set: one ran while the other was in
\* flight, the other after the first had been delivered, and their goroutine
\* counts differ
C37_Witness ==
  /\ \A c \in {1, 2} : conc.slot[c].path = "/api/v1/status" /\ Answered(c)
  /\ conc.slot[1].flag /\ conc.slot[2].flag
  /\ conc.slot[1].doc.goroutines = 2
  /\ conc.slot[2].doc.goroutines = 1

\* ------------------------------------------------- SetNotReady, repeated
\* SetNotReady is an exported method: besides main's one call, any holder of
\* the HealthHandler may call it again. Probes are served all along.
MaxSetCalls == 3

NotReadyRecord == [level |-> "info", msg |-> "service marked as not ready"]

\* calls of SetNotReady so far: each one writes its record
SetCalls == CopiesIn(NotReadyRecord, logs)

\* healthHandler.SetNotReady(), once more
CallSetNotReady_toggles ==
  /\ ~exited
  /\ SetCalls < MaxSetCalls
  /\ ready' = ~ready
  /\ logs' = Emit(logs, "info", "service marked as not ready")
  /\ UNCHANGED <<conc, boot, mem, chain, cfg, mainPc, lsnPc, inShutdown, notified,
                 quit, sigCount, ctxLeft, shutdownErr, exited, exitCode,
                 exitCause, req>>

CallSetNotReady ==
  /\ ~exited
  /\ SetCalls < MaxSetCalls
  /\ SetNotReady
  /\ UNCHANGED <<conc, boot, mem, chain, cfg, mainPc, lsnPc, inShutdown, notified,
                 quit, sigCount, ctxLeft, shutdownErr, exited, exitCode,
                 exitCause, req>>

\* the serving process; the logger runs at a level that writes SetNotReady's
\* record
FlagInit ==
  /\ cfg \in [ShutdownTimeout : {MaxTimeout}, LogLevel : {"debug", "info"}]
  /\ ready = NewHealthHandler
  /\ mainPc = "recv"
  /\ lsnPc = "serving"
  /\ inShutdown = FALSE
  /\ notified = TRUE
  /\ quit = 0
  /\ sigCount = 0
  /\ ctxLeft = NoDeadline
  /\ shutdownErr = "unset"
  /\ exited = FALSE
  /\ exitCode = NoExit
  /\ exitCause = "none"
  /\ logs = EmptyBag
  /\ req = [r \in ReqIds |-> NoReq]
  /\ chain = NoChain
  /\ conc = NoConc
  /\ boot = Booted
  /\ mem = NoMem

FlagNext ==
  \/ CallSetNotReady
  \/ \E r \in ReqIds, p \in Paths : Accept(r, p)
  \/ \E r \in ReqIds : Handle(r)
  \/ \E r \in ReqIds : Finish(r)

FlagSpec == FlagInit /\ [][FlagNext]_vars

\* the step in which request r's Readiness handler runs
ReadinessRuns(r) ==
  /\ req[r].path = "/readyz"
  /\ req[r].st = "accepted"
  /\ req'[r].st = "handled"

\* C38: SetNotReady is idempotent on the readiness state: after one call the
\* flag is false, every further call leaves it false, and every /readyz
\* handled after the first call is answered 503 "not_ready", whether one call
\* or several preceded it.
C38_SetNotReadyIdempotent ==
  /\ [](SetCalls >= 1 => ~ready)
  /\ [][SetCalls' > SetCalls => ~ready']_vars
  /\ [][(SetCalls' > SetCalls /\ SetCalls >= 1) => ready' = ready]_vars
  /\ [][\A r \in ReqIds :
          (ReadinessRuns(r) /\ SetCalls >= 1)
            => /\ req'[r].resp.code = StatusServiceUnavailable
               /\ req'[r].resp.status = "not_ready"
               /\ req'[r].resp = Readiness(FALSE)]_vars

\* SetNotReady was called more than once and a /readyz handled afterwards was
\* answered 503 "not_ready"
C38_Witness ==
  /\ SetCalls >= 2
  /\ ~ready
  /\ \E r \in ReqIds :
       /\ req[r].path = "/readyz" /\ req[r].st = "handled"
       /\ req[r].resp.code = StatusServiceUnavailable
       /\ req[r].resp.status = "not_ready"
====
